---------------------------- MODULE Spec2Model ----------------------------
(***************************************************************************)
(* A model of the Voice King orchestrator (orchestrator.py).               *)
(*                                                                         *)
(* Representation.  A Python str is a tuple of Unicode code points, so     *)
(* that slicing, stripping, lower-casing, substring search and the regular *)
(* expressions of the handlers are computed character by character.  The   *)
(* closed vocabularies of the protocol (action names, intent names, policy *)
(* names, error codes, the request state, the search engine) are TLA+      *)
(* strings.  A Python dict is a record; the empty dict is the empty        *)
(* function whose domain is the keys it has, so that an absent key is a    *)
(* name outside the domain.  A float confidence c is the integer 100 * c.  *)
(* None is the tuple <<-1>> where a str is expected and "<null>" where a   *)
(* vocabulary word is expected.                                            *)
(***************************************************************************)
EXTENDS Integers, Sequences, FiniteSets, TLC

VARIABLES
    payload,      \* the request document handed to process_request
    response,     \* the response dict under construction (orchestrator.py:145)
    pc,           \* the position of process_request in its body
    idx,          \* the index of the for loop over intent_handlers (line 219)
    result,       \* the IntentResult of the handler that matched (line 220);
                  \* its response shares log and tts with the response
    consulted,    \* the handlers called so far, in call order
    prechecked,   \* whether _run_intents (the critical precheck) was called
    gated,        \* the number of calls of _policy_gate_checks
    tts_text,     \* TTS formatter: the text handed to _apply_tts_limit
    tts_limit,    \* TTS formatter: the limit handed to _apply_tts_limit
    tts_out,      \* TTS formatter: the value returned, or Pending
    request,      \* the caller's copy of the request as it was before the call
    calls,        \* several callers: the call each caller is in
    heap,         \* several callers: the response objects allocated so far
    cli,          \* command line: standard input, the error handler of the
                  \* streams, the text on standard output, what was
                  \* reported on standard error, and the exit status
    lookup        \* entity lookup: the entries, the name and the entry found

vars == <<payload, response, pc, idx, result, consulted, prechecked, gated,
          tts_text, tts_limit, tts_out, request, calls, heap, cli, lookup>>

-----------------------------------------------------------------------------
(* Python values                                                           *)

\* None where a str is expected.
None == <<-1>>
\* None where a word of a closed vocabulary is expected.
Null == "<null>"
\* None where a list is expected, and where a dict is expected.
NullList == <<[null |-> TRUE]>>
NullDict == [null |-> TRUE]
\* The empty dict {}.
EmptyDict == [k \in {} |-> 0]
\* Optional[int]: <<>> is None, <<n>> is the integer n.
NoInt == <<>>
SomeInt(n) == <<n>>

\* Truthiness of an optional str: None and "" are falsy.
Truthy(s) == s # None /\ s # <<>>

\* `not v` of an optional list: None and [] are falsy.
FalsyList(v) == v = NullList \/ v = <<>>

\* d.get(key, default): a dict is a record whose domain is its keys.
GetField(d, key, default) == IF key \in DOMAIN d THEN d[key] ELSE default

-----------------------------------------------------------------------------
(* str operations                                                          *)

\* The characters str.strip() removes and the regular expression \s matches.
Whitespace == (9..13) \cup (28..32) \cup {133, 160, 5760} \cup (8192..8202)
              \cup {8232, 8233, 8239, 8287, 12288}
IsSpace(c) == c \in Whitespace

\* The characters that str.lower() changes (Unicode 14.0.0, the data of
\* Python 3.11), as ranges first, last, step, delta written one after
\* another: a character c of first..last with (c - first) % step = 0
\* becomes c + delta.
LowerRanges ==
    <<65, 90, 1, 32, 192, 214, 1, 32, 216, 222, 1, 32, 256, 302, 2, 1, 306,
      310, 2, 1, 313, 327, 2, 1, 330, 374, 2, 1, 376, 376, 1, -121, 377,
      381, 2, 1, 385, 385, 1, 210, 386, 388, 2, 1, 390, 390, 1, 206, 391,
      391, 1, 1, 393, 394, 1, 205, 395, 395, 1, 1, 398, 398, 1, 79, 399,
      399, 1, 202, 400, 400, 1, 203, 401, 401, 1, 1, 403, 403, 1, 205, 404,
      404, 1, 207, 406, 406, 1, 211, 407, 407, 1, 209, 408, 408, 1, 1, 412,
      412, 1, 211, 413, 413, 1, 213, 415, 415, 1, 214, 416, 420, 2, 1, 422,
      422, 1, 218, 423, 423, 1, 1, 425, 425, 1, 218, 428, 428, 1, 1, 430,
      430, 1, 218, 431, 431, 1, 1, 433, 434, 1, 217, 435, 437, 2, 1, 439,
      439, 1, 219, 440, 440, 1, 1, 444, 444, 1, 1, 452, 452, 1, 2, 453, 453,
      1, 1, 455, 455, 1, 2, 456, 456, 1, 1, 458, 458, 1, 2, 459, 475, 2, 1,
      478, 494, 2, 1, 497, 497, 1, 2, 498, 500, 2, 1, 502, 502, 1, -97, 503,
      503, 1, -56, 504, 542, 2, 1, 544, 544, 1, -130, 546, 562, 2, 1, 570,
      570, 1, 10795, 571, 571, 1, 1, 573, 573, 1, -163, 574, 574, 1, 10792,
      577, 577, 1, 1, 579, 579, 1, -195, 580, 580, 1, 69, 581, 581, 1, 71,
      582, 590, 2, 1, 880, 882, 2, 1, 886, 886, 1, 1, 895, 895, 1, 116, 902,
      902, 1, 38, 904, 906, 1, 37, 908, 908, 1, 64, 910, 911, 1, 63, 913,
      929, 1, 32, 931, 939, 1, 32, 975, 975, 1, 8, 984, 1006, 2, 1, 1012,
      1012, 1, -60, 1015, 1015, 1, 1, 1017, 1017, 1, -7, 1018, 1018, 1, 1,
      1021, 1023, 1, -130, 1024, 1039, 1, 80, 1040, 1071, 1, 32, 1120, 1152,
      2, 1, 1162, 1214, 2, 1, 1216, 1216, 1, 15, 1217, 1229, 2, 1, 1232,
      1326, 2, 1, 1329, 1366, 1, 48, 4256, 4293, 1, 7264, 4295, 4295, 1,
      7264, 4301, 4301, 1, 7264, 5024, 5103, 1, 38864, 5104, 5109, 1, 8,
      7312, 7354, 1, -3008, 7357, 7359, 1, -3008, 7680, 7828, 2, 1, 7838,
      7838, 1, -7615, 7840, 7934, 2, 1, 7944, 7951, 1, -8, 7960, 7965, 1,
      -8, 7976, 7983, 1, -8, 7992, 7999, 1, -8, 8008, 8013, 1, -8, 8025,
      8031, 2, -8, 8040, 8047, 1, -8, 8072, 8079, 1, -8, 8088, 8095, 1, -8,
      8104, 8111, 1, -8, 8120, 8121, 1, -8, 8122, 8123, 1, -74, 8124, 8124,
      1, -9, 8136, 8139, 1, -86, 8140, 8140, 1, -9, 8152, 8153, 1, -8, 8154,
      8155, 1, -100, 8168, 8169, 1, -8, 8170, 8171, 1, -112, 8172, 8172, 1,
      -7, 8184, 8185, 1, -128, 8186, 8187, 1, -126, 8188, 8188, 1, -9, 8486,
      8486, 1, -7517, 8490, 8490, 1, -8383, 8491, 8491, 1, -8262, 8498,
      8498, 1, 28, 8544, 8559, 1, 16, 8579, 8579, 1, 1, 9398, 9423, 1, 26,
      11264, 11311, 1, 48, 11360, 11360, 1, 1, 11362, 11362, 1, -10743,
      11363, 11363, 1, -3814, 11364, 11364, 1, -10727, 11367, 11371, 2, 1,
      11373, 11373, 1, -10780, 11374, 11374, 1, -10749, 11375, 11375, 1,
      -10783, 11376, 11376, 1, -10782, 11378, 11378, 1, 1, 11381, 11381, 1,
      1, 11390, 11391, 1, -10815, 11392, 11490, 2, 1, 11499, 11501, 2, 1,
      11506, 11506, 1, 1, 42560, 42604, 2, 1, 42624, 42650, 2, 1, 42786,
      42798, 2, 1, 42802, 42862, 2, 1, 42873, 42875, 2, 1, 42877, 42877, 1,
      -35332, 42878, 42886, 2, 1, 42891, 42891, 1, 1, 42893, 42893, 1,
      -42280, 42896, 42898, 2, 1, 42902, 42920, 2, 1, 42922, 42922, 1,
      -42308, 42923, 42923, 1, -42319, 42924, 42924, 1, -42315, 42925,
      42925, 1, -42305, 42926, 42926, 1, -42308, 42928, 42928, 1, -42258,
      42929, 42929, 1, -42282, 42930, 42930, 1, -42261, 42931, 42931, 1,
      928, 42932, 42946, 2, 1, 42948, 42948, 1, -48, 42949, 42949, 1,
      -42307, 42950, 42950, 1, -35384, 42951, 42953, 2, 1, 42960, 42960, 1,
      1, 42966, 42968, 2, 1, 42997, 42997, 1, 1, 65313, 65338, 1, 32, 66560,
      66599, 1, 40, 66736, 66771, 1, 40, 66928, 66938, 1, 39, 66940, 66954,
      1, 39, 66956, 66962, 1, 39, 66964, 66965, 1, 39, 68736, 68786, 1, 64,
      71840, 71871, 1, 32, 93760, 93791, 1, 32, 125184, 125217, 1, 34>>

\* The characters whose titlecase, the one str.title() uses for the first
\* cased character of a word, is one other character; ranges as above.
TitleRanges ==
    <<97, 122, 1, -32, 181, 181, 1, 743, 224, 246, 1, -32, 248, 254, 1, -32,
      255, 255, 1, 121, 257, 303, 2, -1, 305, 305, 1, -232, 307, 311, 2, -1,
      314, 328, 2, -1, 331, 375, 2, -1, 378, 382, 2, -1, 383, 383, 1, -300,
      384, 384, 1, 195, 387, 389, 2, -1, 392, 392, 1, -1, 396, 396, 1, -1,
      402, 402, 1, -1, 405, 405, 1, 97, 409, 409, 1, -1, 410, 410, 1, 163,
      414, 414, 1, 130, 417, 421, 2, -1, 424, 424, 1, -1, 429, 429, 1, -1,
      432, 432, 1, -1, 436, 438, 2, -1, 441, 441, 1, -1, 445, 445, 1, -1,
      447, 447, 1, 56, 452, 452, 1, 1, 454, 454, 1, -1, 455, 455, 1, 1, 457,
      457, 1, -1, 458, 458, 1, 1, 460, 476, 2, -1, 477, 477, 1, -79, 479,
      495, 2, -1, 497, 497, 1, 1, 499, 501, 2, -1, 505, 543, 2, -1, 547,
      563, 2, -1, 572, 572, 1, -1, 575, 576, 1, 10815, 578, 578, 1, -1, 583,
      591, 2, -1, 592, 592, 1, 10783, 593, 593, 1, 10780, 594, 594, 1,
      10782, 595, 595, 1, -210, 596, 596, 1, -206, 598, 599, 1, -205, 601,
      601, 1, -202, 603, 603, 1, -203, 604, 604, 1, 42319, 608, 608, 1,
      -205, 609, 609, 1, 42315, 611, 611, 1, -207, 613, 613, 1, 42280, 614,
      614, 1, 42308, 616, 616, 1, -209, 617, 617, 1, -211, 618, 618, 1,
      42308, 619, 619, 1, 10743, 620, 620, 1, 42305, 623, 623, 1, -211, 625,
      625, 1, 10749, 626, 626, 1, -213, 629, 629, 1, -214, 637, 637, 1,
      10727, 640, 640, 1, -218, 642, 642, 1, 42307, 643, 643, 1, -218, 647,
      647, 1, 42282, 648, 648, 1, -218, 649, 649, 1, -69, 650, 651, 1, -217,
      652, 652, 1, -71, 658, 658, 1, -219, 669, 669, 1, 42261, 670, 670, 1,
      42258, 837, 837, 1, 84, 881, 883, 2, -1, 887, 887, 1, -1, 891, 893, 1,
      130, 940, 940, 1, -38, 941, 943, 1, -37, 945, 961, 1, -32, 962, 962,
      1, -31, 963, 971, 1, -32, 972, 972, 1, -64, 973, 974, 1, -63, 976,
      976, 1, -62, 977, 977, 1, -57, 981, 981, 1, -47, 982, 982, 1, -54,
      983, 983, 1, -8, 985, 1007, 2, -1, 1008, 1008, 1, -86, 1009, 1009, 1,
      -80, 1010, 1010, 1, 7, 1011, 1011, 1, -116, 1013, 1013, 1, -96, 1016,
      1016, 1, -1, 1019, 1019, 1, -1, 1072, 1103, 1, -32, 1104, 1119, 1,
      -80, 1121, 1153, 2, -1, 1163, 1215, 2, -1, 1218, 1230, 2, -1, 1231,
      1231, 1, -15, 1233, 1327, 2, -1, 1377, 1414, 1, -48, 5112, 5117, 1,
      -8, 7296, 7296, 1, -6254, 7297, 7297, 1, -6253, 7298, 7298, 1, -6244,
      7299, 7300, 1, -6242, 7301, 7301, 1, -6243, 7302, 7302, 1, -6236,
      7303, 7303, 1, -6181, 7304, 7304, 1, 35266, 7545, 7545, 1, 35332,
      7549, 7549, 1, 3814, 7566, 7566, 1, 35384, 7681, 7829, 2, -1, 7835,
      7835, 1, -59, 7841, 7935, 2, -1, 7936, 7943, 1, 8, 7952, 7957, 1, 8,
      7968, 7975, 1, 8, 7984, 7991, 1, 8, 8000, 8005, 1, 8, 8017, 8023, 2,
      8, 8032, 8039, 1, 8, 8048, 8049, 1, 74, 8050, 8053, 1, 86, 8054, 8055,
      1, 100, 8056, 8057, 1, 128, 8058, 8059, 1, 112, 8060, 8061, 1, 126,
      8064, 8071, 1, 8, 8080, 8087, 1, 8, 8096, 8103, 1, 8, 8112, 8113, 1,
      8, 8115, 8115, 1, 9, 8126, 8126, 1, -7205, 8131, 8131, 1, 9, 8144,
      8145, 1, 8, 8160, 8161, 1, 8, 8165, 8165, 1, 7, 8179, 8179, 1, 9,
      8526, 8526, 1, -28, 8560, 8575, 1, -16, 8580, 8580, 1, -1, 9424, 9449,
      1, -26, 11312, 11359, 1, -48, 11361, 11361, 1, -1, 11365, 11365, 1,
      -10795, 11366, 11366, 1, -10792, 11368, 11372, 2, -1, 11379, 11379, 1,
      -1, 11382, 11382, 1, -1, 11393, 11491, 2, -1, 11500, 11502, 2, -1,
      11507, 11507, 1, -1, 11520, 11557, 1, -7264, 11559, 11559, 1, -7264,
      11565, 11565, 1, -7264, 42561, 42605, 2, -1, 42625, 42651, 2, -1,
      42787, 42799, 2, -1, 42803, 42863, 2, -1, 42874, 42876, 2, -1, 42879,
      42887, 2, -1, 42892, 42892, 1, -1, 42897, 42899, 2, -1, 42900, 42900,
      1, 48, 42903, 42921, 2, -1, 42933, 42947, 2, -1, 42952, 42954, 2, -1,
      42961, 42961, 1, -1, 42967, 42969, 2, -1, 42998, 42998, 1, -1, 43859,
      43859, 1, -928, 43888, 43967, 1, -38864, 65345, 65370, 1, -32, 66600,
      66639, 1, -40, 66776, 66811, 1, -40, 66967, 66977, 1, -39, 66979,
      66993, 1, -39, 66995, 67001, 1, -39, 67003, 67004, 1, -39, 68800,
      68850, 1, -64, 71872, 71903, 1, -32, 93792, 93823, 1, -32, 125218,
      125251, 1, -34>>

\* The characters whose titlecase is more than one character: the
\* character and the two or three characters of its titlecase (0 in place
\* of a third), one entry after another, by character.
TitleSpecial ==
    <<223, 83, 115, 0, 329, 700, 78, 0, 496, 74, 780, 0, 912, 921, 776, 769,
      944, 933, 776, 769, 1415, 1333, 1410, 0, 7830, 72, 817, 0, 7831, 84,
      776, 0, 7832, 87, 778, 0, 7833, 89, 778, 0, 7834, 65, 702, 0, 8016,
      933, 787, 0, 8018, 933, 787, 768, 8020, 933, 787, 769, 8022, 933, 787,
      834, 8114, 8122, 837, 0, 8116, 902, 837, 0, 8118, 913, 834, 0, 8119,
      913, 834, 837, 8130, 8138, 837, 0, 8132, 905, 837, 0, 8134, 919, 834,
      0, 8135, 919, 834, 837, 8146, 921, 776, 768, 8147, 921, 776, 769,
      8150, 921, 834, 0, 8151, 921, 776, 834, 8162, 933, 776, 768, 8163,
      933, 776, 769, 8164, 929, 787, 0, 8166, 933, 834, 0, 8167, 933, 776,
      834, 8178, 8186, 837, 0, 8180, 911, 837, 0, 8182, 937, 834, 0, 8183,
      937, 834, 837, 64256, 70, 102, 0, 64257, 70, 105, 0, 64258, 70, 108,
      0, 64259, 70, 102, 105, 64260, 70, 102, 108, 64261, 83, 116, 0, 64262,
      83, 116, 0, 64275, 1348, 1398, 0, 64276, 1348, 1381, 0, 64277, 1348,
      1387, 0, 64278, 1358, 1398, 0, 64279, 1348, 1389, 0>>

\* The cased characters (Unicode property Cased), as ranges first, last
\* written one after another.
CasedRanges ==
    <<65, 90, 97, 122, 170, 170, 181, 181, 186, 186, 192, 214, 216, 246,
      248, 442, 444, 447, 452, 659, 661, 696, 704, 705, 736, 740, 837, 837,
      880, 883, 886, 887, 890, 893, 895, 895, 902, 902, 904, 906, 908, 908,
      910, 929, 931, 1013, 1015, 1153, 1162, 1327, 1329, 1366, 1376, 1416,
      4256, 4293, 4295, 4295, 4301, 4301, 4304, 4346, 4349, 4351, 5024,
      5109, 5112, 5117, 7296, 7304, 7312, 7354, 7357, 7359, 7424, 7615,
      7680, 7957, 7960, 7965, 7968, 8005, 8008, 8013, 8016, 8023, 8025,
      8025, 8027, 8027, 8029, 8029, 8031, 8061, 8064, 8116, 8118, 8124,
      8126, 8126, 8130, 8132, 8134, 8140, 8144, 8147, 8150, 8155, 8160,
      8172, 8178, 8180, 8182, 8188, 8305, 8305, 8319, 8319, 8336, 8348,
      8450, 8450, 8455, 8455, 8458, 8467, 8469, 8469, 8473, 8477, 8484,
      8484, 8486, 8486, 8488, 8488, 8490, 8493, 8495, 8500, 8505, 8505,
      8508, 8511, 8517, 8521, 8526, 8526, 8544, 8575, 8579, 8580, 9398,
      9449, 11264, 11492, 11499, 11502, 11506, 11507, 11520, 11557, 11559,
      11559, 11565, 11565, 42560, 42605, 42624, 42653, 42786, 42887, 42891,
      42894, 42896, 42954, 42960, 42961, 42963, 42963, 42965, 42969, 42997,
      42998, 43000, 43002, 43824, 43866, 43868, 43880, 43888, 43967, 64256,
      64262, 64275, 64279, 65313, 65338, 65345, 65370, 66560, 66639, 66736,
      66771, 66776, 66811, 66928, 66938, 66940, 66954, 66956, 66962, 66964,
      66965, 66967, 66977, 66979, 66993, 66995, 67001, 67003, 67004, 67456,
      67456, 67459, 67461, 67463, 67504, 67506, 67514, 68736, 68786, 68800,
      68850, 71840, 71903, 93760, 93823, 119808, 119892, 119894, 119964,
      119966, 119967, 119970, 119970, 119973, 119974, 119977, 119980,
      119982, 119993, 119995, 119995, 119997, 120003, 120005, 120069,
      120071, 120074, 120077, 120084, 120086, 120092, 120094, 120121,
      120123, 120126, 120128, 120132, 120134, 120134, 120138, 120144,
      120146, 120485, 120488, 120512, 120514, 120538, 120540, 120570,
      120572, 120596, 120598, 120628, 120630, 120654, 120656, 120686,
      120688, 120712, 120714, 120744, 120746, 120770, 120772, 120779,
      122624, 122633, 122635, 122654, 125184, 125251, 127280, 127305,
      127312, 127337, 127344, 127369>>

\* The case-ignorable characters (Unicode property Case_Ignorable).
CaseIgnorableRanges ==
    <<39, 39, 46, 46, 58, 58, 94, 94, 96, 96, 168, 168, 173, 173, 175, 175,
      180, 180, 183, 184, 688, 879, 884, 885, 890, 890, 900, 901, 903, 903,
      1155, 1161, 1369, 1369, 1375, 1375, 1425, 1469, 1471, 1471, 1473,
      1474, 1476, 1477, 1479, 1479, 1524, 1524, 1536, 1541, 1552, 1562,
      1564, 1564, 1600, 1600, 1611, 1631, 1648, 1648, 1750, 1757, 1759,
      1768, 1770, 1773, 1807, 1807, 1809, 1809, 1840, 1866, 1958, 1968,
      2027, 2037, 2042, 2042, 2045, 2045, 2070, 2093, 2137, 2139, 2184,
      2184, 2192, 2193, 2200, 2207, 2249, 2306, 2362, 2362, 2364, 2364,
      2369, 2376, 2381, 2381, 2385, 2391, 2402, 2403, 2417, 2417, 2433,
      2433, 2492, 2492, 2497, 2500, 2509, 2509, 2530, 2531, 2558, 2558,
      2561, 2562, 2620, 2620, 2625, 2626, 2631, 2632, 2635, 2637, 2641,
      2641, 2672, 2673, 2677, 2677, 2689, 2690, 2748, 2748, 2753, 2757,
      2759, 2760, 2765, 2765, 2786, 2787, 2810, 2815, 2817, 2817, 2876,
      2876, 2879, 2879, 2881, 2884, 2893, 2893, 2901, 2902, 2914, 2915,
      2946, 2946, 3008, 3008, 3021, 3021, 3072, 3072, 3076, 3076, 3132,
      3132, 3134, 3136, 3142, 3144, 3146, 3149, 3157, 3158, 3170, 3171,
      3201, 3201, 3260, 3260, 3263, 3263, 3270, 3270, 3276, 3277, 3298,
      3299, 3328, 3329, 3387, 3388, 3393, 3396, 3405, 3405, 3426, 3427,
      3457, 3457, 3530, 3530, 3538, 3540, 3542, 3542, 3633, 3633, 3636,
      3642, 3654, 3662, 3761, 3761, 3764, 3772, 3782, 3782, 3784, 3789,
      3864, 3865, 3893, 3893, 3895, 3895, 3897, 3897, 3953, 3966, 3968,
      3972, 3974, 3975, 3981, 3991, 3993, 4028, 4038, 4038, 4141, 4144,
      4146, 4151, 4153, 4154, 4157, 4158, 4184, 4185, 4190, 4192, 4209,
      4212, 4226, 4226, 4229, 4230, 4237, 4237, 4253, 4253, 4348, 4348,
      4957, 4959, 5906, 5908, 5938, 5939, 5970, 5971, 6002, 6003, 6068,
      6069, 6071, 6077, 6086, 6086, 6089, 6099, 6103, 6103, 6109, 6109,
      6155, 6159, 6211, 6211, 6277, 6278, 6313, 6313, 6432, 6434, 6439,
      6440, 6450, 6450, 6457, 6459, 6679, 6680, 6683, 6683, 6742, 6742,
      6744, 6750, 6752, 6752, 6754, 6754, 6757, 6764, 6771, 6780, 6783,
      6783, 6823, 6823, 6832, 6862, 6912, 6915, 6964, 6964, 6966, 6970,
      6972, 6972, 6978, 6978, 7019, 7027, 7040, 7041, 7074, 7077, 7080,
      7081, 7083, 7085, 7142, 7142, 7144, 7145, 7149, 7149, 7151, 7153,
      7212, 7219, 7222, 7223, 7288, 7293, 7376, 7378, 7380, 7392, 7394,
      7400, 7405, 7405, 7412, 7412, 7416, 7417, 7468, 7530, 7544, 7544,
      7579, 7679, 8125, 8125, 8127, 8129, 8141, 8143, 8157, 8159, 8173,
      8175, 8189, 8190, 8203, 8207, 8216, 8217, 8228, 8228, 8231, 8231,
      8234, 8238, 8288, 8292, 8294, 8303, 8305, 8305, 8319, 8319, 8336,
      8348, 8400, 8432, 11388, 11389, 11503, 11505, 11631, 11631, 11647,
      11647, 11744, 11775, 11823, 11823, 12293, 12293, 12330, 12333, 12337,
      12341, 12347, 12347, 12441, 12446, 12540, 12542, 40981, 40981, 42232,
      42237, 42508, 42508, 42607, 42610, 42612, 42621, 42623, 42623, 42652,
      42655, 42736, 42737, 42752, 42785, 42864, 42864, 42888, 42890, 42994,
      42996, 43000, 43001, 43010, 43010, 43014, 43014, 43019, 43019, 43045,
      43046, 43052, 43052, 43204, 43205, 43232, 43249, 43263, 43263, 43302,
      43309, 43335, 43345, 43392, 43394, 43443, 43443, 43446, 43449, 43452,
      43453, 43471, 43471, 43493, 43494, 43561, 43566, 43569, 43570, 43573,
      43574, 43587, 43587, 43596, 43596, 43632, 43632, 43644, 43644, 43696,
      43696, 43698, 43700, 43703, 43704, 43710, 43711, 43713, 43713, 43741,
      43741, 43756, 43757, 43763, 43764, 43766, 43766, 43867, 43871, 43881,
      43883, 44005, 44005, 44008, 44008, 44013, 44013, 64286, 64286, 64434,
      64450, 65024, 65039, 65043, 65043, 65056, 65071, 65106, 65106, 65109,
      65109, 65279, 65279, 65287, 65287, 65294, 65294, 65306, 65306, 65342,
      65342, 65344, 65344, 65392, 65392, 65438, 65439, 65507, 65507, 65529,
      65531, 66045, 66045, 66272, 66272, 66422, 66426, 67456, 67461, 67463,
      67504, 67506, 67514, 68097, 68099, 68101, 68102, 68108, 68111, 68152,
      68154, 68159, 68159, 68325, 68326, 68900, 68903, 69291, 69292, 69446,
      69456, 69506, 69509, 69633, 69633, 69688, 69702, 69744, 69744, 69747,
      69748, 69759, 69761, 69811, 69814, 69817, 69818, 69821, 69821, 69826,
      69826, 69837, 69837, 69888, 69890, 69927, 69931, 69933, 69940, 70003,
      70003, 70016, 70017, 70070, 70078, 70089, 70092, 70095, 70095, 70191,
      70193, 70196, 70196, 70198, 70199, 70206, 70206, 70367, 70367, 70371,
      70378, 70400, 70401, 70459, 70460, 70464, 70464, 70502, 70508, 70512,
      70516, 70712, 70719, 70722, 70724, 70726, 70726, 70750, 70750, 70835,
      70840, 70842, 70842, 70847, 70848, 70850, 70851, 71090, 71093, 71100,
      71101, 71103, 71104, 71132, 71133, 71219, 71226, 71229, 71229, 71231,
      71232, 71339, 71339, 71341, 71341, 71344, 71349, 71351, 71351, 71453,
      71455, 71458, 71461, 71463, 71467, 71727, 71735, 71737, 71738, 71995,
      71996, 71998, 71998, 72003, 72003, 72148, 72151, 72154, 72155, 72160,
      72160, 72193, 72202, 72243, 72248, 72251, 72254, 72263, 72263, 72273,
      72278, 72281, 72283, 72330, 72342, 72344, 72345, 72752, 72758, 72760,
      72765, 72767, 72767, 72850, 72871, 72874, 72880, 72882, 72883, 72885,
      72886, 73009, 73014, 73018, 73018, 73020, 73021, 73023, 73029, 73031,
      73031, 73104, 73105, 73109, 73109, 73111, 73111, 73459, 73460, 78896,
      78904, 92912, 92916, 92976, 92982, 92992, 92995, 94031, 94031, 94095,
      94111, 94176, 94177, 94179, 94180, 110576, 110579, 110581, 110587,
      110589, 110590, 113821, 113822, 113824, 113827, 118528, 118573,
      118576, 118598, 119143, 119145, 119155, 119170, 119173, 119179,
      119210, 119213, 119362, 119364, 121344, 121398, 121403, 121452,
      121461, 121461, 121476, 121476, 121499, 121503, 121505, 121519,
      122880, 122886, 122888, 122904, 122907, 122913, 122915, 122916,
      122918, 122922, 123184, 123197, 123566, 123566, 123628, 123631,
      125136, 125142, 125252, 125259, 127995, 127999, 917505, 917505,
      917536, 917631, 917760, 917999>>

\* The characters \w matches in a str pattern: str.isalnum() or the
\* underscore.
WordRanges ==
    <<48, 57, 65, 90, 95, 95, 97, 122, 170, 170, 178, 179, 181, 181, 185,
      186, 188, 190, 192, 214, 216, 246, 248, 705, 710, 721, 736, 740, 748,
      748, 750, 750, 880, 884, 886, 887, 890, 893, 895, 895, 902, 902, 904,
      906, 908, 908, 910, 929, 931, 1013, 1015, 1153, 1162, 1327, 1329,
      1366, 1369, 1369, 1376, 1416, 1488, 1514, 1519, 1522, 1568, 1610,
      1632, 1641, 1646, 1647, 1649, 1747, 1749, 1749, 1765, 1766, 1774,
      1788, 1791, 1791, 1808, 1808, 1810, 1839, 1869, 1957, 1969, 1969,
      1984, 2026, 2036, 2037, 2042, 2042, 2048, 2069, 2074, 2074, 2084,
      2084, 2088, 2088, 2112, 2136, 2144, 2154, 2160, 2183, 2185, 2190,
      2208, 2249, 2308, 2361, 2365, 2365, 2384, 2384, 2392, 2401, 2406,
      2415, 2417, 2432, 2437, 2444, 2447, 2448, 2451, 2472, 2474, 2480,
      2482, 2482, 2486, 2489, 2493, 2493, 2510, 2510, 2524, 2525, 2527,
      2529, 2534, 2545, 2548, 2553, 2556, 2556, 2565, 2570, 2575, 2576,
      2579, 2600, 2602, 2608, 2610, 2611, 2613, 2614, 2616, 2617, 2649,
      2652, 2654, 2654, 2662, 2671, 2674, 2676, 2693, 2701, 2703, 2705,
      2707, 2728, 2730, 2736, 2738, 2739, 2741, 2745, 2749, 2749, 2768,
      2768, 2784, 2785, 2790, 2799, 2809, 2809, 2821, 2828, 2831, 2832,
      2835, 2856, 2858, 2864, 2866, 2867, 2869, 2873, 2877, 2877, 2908,
      2909, 2911, 2913, 2918, 2927, 2929, 2935, 2947, 2947, 2949, 2954,
      2958, 2960, 2962, 2965, 2969, 2970, 2972, 2972, 2974, 2975, 2979,
      2980, 2984, 2986, 2990, 3001, 3024, 3024, 3046, 3058, 3077, 3084,
      3086, 3088, 3090, 3112, 3114, 3129, 3133, 3133, 3160, 3162, 3165,
      3165, 3168, 3169, 3174, 3183, 3192, 3198, 3200, 3200, 3205, 3212,
      3214, 3216, 3218, 3240, 3242, 3251, 3253, 3257, 3261, 3261, 3293,
      3294, 3296, 3297, 3302, 3311, 3313, 3314, 3332, 3340, 3342, 3344,
      3346, 3386, 3389, 3389, 3406, 3406, 3412, 3414, 3416, 3425, 3430,
      3448, 3450, 3455, 3461, 3478, 3482, 3505, 3507, 3515, 3517, 3517,
      3520, 3526, 3558, 3567, 3585, 3632, 3634, 3635, 3648, 3654, 3664,
      3673, 3713, 3714, 3716, 3716, 3718, 3722, 3724, 3747, 3749, 3749,
      3751, 3760, 3762, 3763, 3773, 3773, 3776, 3780, 3782, 3782, 3792,
      3801, 3804, 3807, 3840, 3840, 3872, 3891, 3904, 3911, 3913, 3948,
      3976, 3980, 4096, 4138, 4159, 4169, 4176, 4181, 4186, 4189, 4193,
      4193, 4197, 4198, 4206, 4208, 4213, 4225, 4238, 4238, 4240, 4249,
      4256, 4293, 4295, 4295, 4301, 4301, 4304, 4346, 4348, 4680, 4682,
      4685, 4688, 4694, 4696, 4696, 4698, 4701, 4704, 4744, 4746, 4749,
      4752, 4784, 4786, 4789, 4792, 4798, 4800, 4800, 4802, 4805, 4808,
      4822, 4824, 4880, 4882, 4885, 4888, 4954, 4969, 4988, 4992, 5007,
      5024, 5109, 5112, 5117, 5121, 5740, 5743, 5759, 5761, 5786, 5792,
      5866, 5870, 5880, 5888, 5905, 5919, 5937, 5952, 5969, 5984, 5996,
      5998, 6000, 6016, 6067, 6103, 6103, 6108, 6108, 6112, 6121, 6128,
      6137, 6160, 6169, 6176, 6264, 6272, 6276, 6279, 6312, 6314, 6314,
      6320, 6389, 6400, 6430, 6470, 6509, 6512, 6516, 6528, 6571, 6576,
      6601, 6608, 6618, 6656, 6678, 6688, 6740, 6784, 6793, 6800, 6809,
      6823, 6823, 6917, 6963, 6981, 6988, 6992, 7001, 7043, 7072, 7086,
      7141, 7168, 7203, 7232, 7241, 7245, 7293, 7296, 7304, 7312, 7354,
      7357, 7359, 7401, 7404, 7406, 7411, 7413, 7414, 7418, 7418, 7424,
      7615, 7680, 7957, 7960, 7965, 7968, 8005, 8008, 8013, 8016, 8023,
      8025, 8025, 8027, 8027, 8029, 8029, 8031, 8061, 8064, 8116, 8118,
      8124, 8126, 8126, 8130, 8132, 8134, 8140, 8144, 8147, 8150, 8155,
      8160, 8172, 8178, 8180, 8182, 8188, 8304, 8305, 8308, 8313, 8319,
      8329, 8336, 8348, 8450, 8450, 8455, 8455, 8458, 8467, 8469, 8469,
      8473, 8477, 8484, 8484, 8486, 8486, 8488, 8488, 8490, 8493, 8495,
      8505, 8508, 8511, 8517, 8521, 8526, 8526, 8528, 8585, 9312, 9371,
      9450, 9471, 10102, 10131, 11264, 11492, 11499, 11502, 11506, 11507,
      11517, 11517, 11520, 11557, 11559, 11559, 11565, 11565, 11568, 11623,
      11631, 11631, 11648, 11670, 11680, 11686, 11688, 11694, 11696, 11702,
      11704, 11710, 11712, 11718, 11720, 11726, 11728, 11734, 11736, 11742,
      11823, 11823, 12293, 12295, 12321, 12329, 12337, 12341, 12344, 12348,
      12353, 12438, 12445, 12447, 12449, 12538, 12540, 12543, 12549, 12591,
      12593, 12686, 12690, 12693, 12704, 12735, 12784, 12799, 12832, 12841,
      12872, 12879, 12881, 12895, 12928, 12937, 12977, 12991, 13312, 19903,
      19968, 42124, 42192, 42237, 42240, 42508, 42512, 42539, 42560, 42606,
      42623, 42653, 42656, 42735, 42775, 42783, 42786, 42888, 42891, 42954,
      42960, 42961, 42963, 42963, 42965, 42969, 42994, 43009, 43011, 43013,
      43015, 43018, 43020, 43042, 43056, 43061, 43072, 43123, 43138, 43187,
      43216, 43225, 43250, 43255, 43259, 43259, 43261, 43262, 43264, 43301,
      43312, 43334, 43360, 43388, 43396, 43442, 43471, 43481, 43488, 43492,
      43494, 43518, 43520, 43560, 43584, 43586, 43588, 43595, 43600, 43609,
      43616, 43638, 43642, 43642, 43646, 43695, 43697, 43697, 43701, 43702,
      43705, 43709, 43712, 43712, 43714, 43714, 43739, 43741, 43744, 43754,
      43762, 43764, 43777, 43782, 43785, 43790, 43793, 43798, 43808, 43814,
      43816, 43822, 43824, 43866, 43868, 43881, 43888, 44002, 44016, 44025,
      44032, 55203, 55216, 55238, 55243, 55291, 63744, 64109, 64112, 64217,
      64256, 64262, 64275, 64279, 64285, 64285, 64287, 64296, 64298, 64310,
      64312, 64316, 64318, 64318, 64320, 64321, 64323, 64324, 64326, 64433,
      64467, 64829, 64848, 64911, 64914, 64967, 65008, 65019, 65136, 65140,
      65142, 65276, 65296, 65305, 65313, 65338, 65345, 65370, 65382, 65470,
      65474, 65479, 65482, 65487, 65490, 65495, 65498, 65500, 65536, 65547,
      65549, 65574, 65576, 65594, 65596, 65597, 65599, 65613, 65616, 65629,
      65664, 65786, 65799, 65843, 65856, 65912, 65930, 65931, 66176, 66204,
      66208, 66256, 66273, 66299, 66304, 66339, 66349, 66378, 66384, 66421,
      66432, 66461, 66464, 66499, 66504, 66511, 66513, 66517, 66560, 66717,
      66720, 66729, 66736, 66771, 66776, 66811, 66816, 66855, 66864, 66915,
      66928, 66938, 66940, 66954, 66956, 66962, 66964, 66965, 66967, 66977,
      66979, 66993, 66995, 67001, 67003, 67004, 67072, 67382, 67392, 67413,
      67424, 67431, 67456, 67461, 67463, 67504, 67506, 67514, 67584, 67589,
      67592, 67592, 67594, 67637, 67639, 67640, 67644, 67644, 67647, 67669,
      67672, 67702, 67705, 67742, 67751, 67759, 67808, 67826, 67828, 67829,
      67835, 67867, 67872, 67897, 67968, 68023, 68028, 68047, 68050, 68096,
      68112, 68115, 68117, 68119, 68121, 68149, 68160, 68168, 68192, 68222,
      68224, 68255, 68288, 68295, 68297, 68324, 68331, 68335, 68352, 68405,
      68416, 68437, 68440, 68466, 68472, 68497, 68521, 68527, 68608, 68680,
      68736, 68786, 68800, 68850, 68858, 68899, 68912, 68921, 69216, 69246,
      69248, 69289, 69296, 69297, 69376, 69415, 69424, 69445, 69457, 69460,
      69488, 69505, 69552, 69579, 69600, 69622, 69635, 69687, 69714, 69743,
      69745, 69746, 69749, 69749, 69763, 69807, 69840, 69864, 69872, 69881,
      69891, 69926, 69942, 69951, 69956, 69956, 69959, 69959, 69968, 70002,
      70006, 70006, 70019, 70066, 70081, 70084, 70096, 70106, 70108, 70108,
      70113, 70132, 70144, 70161, 70163, 70187, 70272, 70278, 70280, 70280,
      70282, 70285, 70287, 70301, 70303, 70312, 70320, 70366, 70384, 70393,
      70405, 70412, 70415, 70416, 70419, 70440, 70442, 70448, 70450, 70451,
      70453, 70457, 70461, 70461, 70480, 70480, 70493, 70497, 70656, 70708,
      70727, 70730, 70736, 70745, 70751, 70753, 70784, 70831, 70852, 70853,
      70855, 70855, 70864, 70873, 71040, 71086, 71128, 71131, 71168, 71215,
      71236, 71236, 71248, 71257, 71296, 71338, 71352, 71352, 71360, 71369,
      71424, 71450, 71472, 71483, 71488, 71494, 71680, 71723, 71840, 71922,
      71935, 71942, 71945, 71945, 71948, 71955, 71957, 71958, 71960, 71983,
      71999, 71999, 72001, 72001, 72016, 72025, 72096, 72103, 72106, 72144,
      72161, 72161, 72163, 72163, 72192, 72192, 72203, 72242, 72250, 72250,
      72272, 72272, 72284, 72329, 72349, 72349, 72368, 72440, 72704, 72712,
      72714, 72750, 72768, 72768, 72784, 72812, 72818, 72847, 72960, 72966,
      72968, 72969, 72971, 73008, 73030, 73030, 73040, 73049, 73056, 73061,
      73063, 73064, 73066, 73097, 73112, 73112, 73120, 73129, 73440, 73458,
      73648, 73648, 73664, 73684, 73728, 74649, 74752, 74862, 74880, 75075,
      77712, 77808, 77824, 78894, 82944, 83526, 92160, 92728, 92736, 92766,
      92768, 92777, 92784, 92862, 92864, 92873, 92880, 92909, 92928, 92975,
      92992, 92995, 93008, 93017, 93019, 93025, 93027, 93047, 93053, 93071,
      93760, 93846, 93952, 94026, 94032, 94032, 94099, 94111, 94176, 94177,
      94179, 94179, 94208, 100343, 100352, 101589, 101632, 101640, 110576,
      110579, 110581, 110587, 110589, 110590, 110592, 110882, 110928,
      110930, 110948, 110951, 110960, 111355, 113664, 113770, 113776,
      113788, 113792, 113800, 113808, 113817, 119520, 119539, 119648,
      119672, 119808, 119892, 119894, 119964, 119966, 119967, 119970,
      119970, 119973, 119974, 119977, 119980, 119982, 119993, 119995,
      119995, 119997, 120003, 120005, 120069, 120071, 120074, 120077,
      120084, 120086, 120092, 120094, 120121, 120123, 120126, 120128,
      120132, 120134, 120134, 120138, 120144, 120146, 120485, 120488,
      120512, 120514, 120538, 120540, 120570, 120572, 120596, 120598,
      120628, 120630, 120654, 120656, 120686, 120688, 120712, 120714,
      120744, 120746, 120770, 120772, 120779, 120782, 120831, 122624,
      122654, 123136, 123180, 123191, 123197, 123200, 123209, 123214,
      123214, 123536, 123565, 123584, 123627, 123632, 123641, 124896,
      124902, 124904, 124907, 124909, 124910, 124912, 124926, 124928,
      125124, 125127, 125135, 125184, 125251, 125259, 125259, 125264,
      125273, 126065, 126123, 126125, 126127, 126129, 126132, 126209,
      126253, 126255, 126269, 126464, 126467, 126469, 126495, 126497,
      126498, 126500, 126500, 126503, 126503, 126505, 126514, 126516,
      126519, 126521, 126521, 126523, 126523, 126530, 126530, 126535,
      126535, 126537, 126537, 126539, 126539, 126541, 126543, 126545,
      126546, 126548, 126548, 126551, 126551, 126553, 126553, 126555,
      126555, 126557, 126557, 126559, 126559, 126561, 126562, 126564,
      126564, 126567, 126570, 126572, 126578, 126580, 126583, 126585,
      126588, 126590, 126590, 126592, 126601, 126603, 126619, 126625,
      126627, 126629, 126633, 126635, 126651, 127232, 127244, 130032,
      130041, 131072, 173791, 173824, 177976, 177984, 178205, 178208,
      183969, 183984, 191456, 194560, 195101, 196608, 201546>>

\* The characters \d matches in a str pattern and int() reads: the decimal
\* digits (Unicode category Nd).  They come in runs 0..9, so that a digit's
\* value is its offset in its range modulo 10.
DigitRanges ==
    <<48, 57, 1632, 1641, 1776, 1785, 1984, 1993, 2406, 2415, 2534, 2543,
      2662, 2671, 2790, 2799, 2918, 2927, 3046, 3055, 3174, 3183, 3302,
      3311, 3430, 3439, 3558, 3567, 3664, 3673, 3792, 3801, 3872, 3881,
      4160, 4169, 4240, 4249, 6112, 6121, 6160, 6169, 6470, 6479, 6608,
      6617, 6784, 6793, 6800, 6809, 6992, 7001, 7088, 7097, 7232, 7241,
      7248, 7257, 42528, 42537, 43216, 43225, 43264, 43273, 43472, 43481,
      43504, 43513, 43600, 43609, 44016, 44025, 65296, 65305, 66720, 66729,
      68912, 68921, 69734, 69743, 69872, 69881, 69942, 69951, 70096, 70105,
      70384, 70393, 70736, 70745, 70864, 70873, 71248, 71257, 71360, 71369,
      71472, 71481, 71904, 71913, 72016, 72025, 72784, 72793, 73040, 73049,
      73120, 73129, 92768, 92777, 92864, 92873, 93008, 93017, 120782,
      120831, 123200, 123209, 123632, 123641, 125264, 125273, 130032, 130041>>

\* The greatest k of lo..hi whose entry of tab (entries are w wide) begins
\* at or before c; lo - 1 when there is none.
RECURSIVE RangeIndex(_, _, _, _, _)
RangeIndex(tab, w, c, lo, hi) ==
    IF lo > hi THEN hi
    ELSE IF tab[w * ((lo + hi) \div 2 - 1) + 1] <= c
         THEN RangeIndex(tab, w, c, (lo + hi) \div 2 + 1, hi)
         ELSE RangeIndex(tab, w, c, lo, (lo + hi) \div 2 - 1)

\* The characters of the ranges first, last of tab.
Chars(tab) == UNION {tab[2 * k - 1]..tab[2 * k] : k \in 1..(Len(tab) \div 2)}

\* The characters of the ranges first, last, step, delta of tab that have an
\* image.
Sources(tab) ==
    UNION {{tab[4 * k - 3] + tab[4 * k - 1] * i :
                i \in 0..((tab[4 * k - 2] - tab[4 * k - 3]) \div tab[4 * k - 1])} :
           k \in 1..(Len(tab) \div 4)}

\* The image of c under the ranges first, last, step, delta of tab: under
\* the k-th, the last that begins at or before c.
MappedBy(tab, c, k) ==
    IF /\ k > 0
       /\ c <= tab[4 * k - 2]
       /\ (c - tab[4 * k - 3]) % tab[4 * k - 1] = 0
    THEN c + tab[4 * k]
    ELSE c
Mapped(tab, c) == MappedBy(tab, c, RangeIndex(tab, 4, c, 1, Len(tab) \div 4))

\* The lowercase of one character, one character or, for U+0130, two.
LowerSources == Sources(LowerRanges)
LowerChar(c) ==
    IF c = 304 THEN <<105, 775>>
    ELSE IF c \in LowerSources THEN <<Mapped(LowerRanges, c)>>
    ELSE <<c>>

\* The titlecase of one character, up to three characters.
TitleBy(c, k) ==
    IF k > 0 /\ TitleSpecial[4 * k - 3] = c
    THEN SubSeq(TitleSpecial, 4 * k - 2,
                IF TitleSpecial[4 * k] = 0 THEN 4 * k - 1 ELSE 4 * k)
    ELSE <<Mapped(TitleRanges, c)>>
TitleChar(c) ==
    TitleBy(c, RangeIndex(TitleSpecial, 4, c, 1, Len(TitleSpecial) \div 4))

CasedChars == Chars(CasedRanges)
IsCased(c) == c \in CasedChars
CaseIgnorableChars == Chars(CaseIgnorableRanges)
IsCaseIgnorable(c) == c \in CaseIgnorableChars

\* \w of the regular expressions.
WordChars == Chars(WordRanges)
IsWordChar(c) == c \in WordChars

\* \d of the regular expressions.
DigitChars == Chars(DigitRanges)
IsDigit(c) == c \in DigitChars

\* The nearest position before i (dir = -1) or after i (dir = 1) of s whose
\* character is not case-ignorable; 0 or Len(s) + 1 when there is none.
RECURSIVE SkipIgnorable(_, _, _)
SkipIgnorable(s, i, dir) ==
    IF i + dir >= 1 /\ i + dir <= Len(s) /\ IsCaseIgnorable(s[i + dir])
    THEN SkipIgnorable(s, i + dir, dir)
    ELSE i + dir

\* Whether the capital sigma at i of s ends a word: a cased character
\* before it and none after it, case-ignorable characters apart.
SigmaEnds(s, b, a) ==
    /\ b >= 1 /\ IsCased(s[b])
    /\ (a > Len(s) \/ ~IsCased(s[a]))
FinalSigma(s, i) ==
    SigmaEnds(s, SkipIgnorable(s, i, -1), SkipIgnorable(s, i, 1))

\* The lowercase of the character at i of s.
LowerAt(s, i) ==
    IF s[i] = 931 THEN <<IF FinalSigma(s, i) THEN 962 ELSE 963>>
    ELSE LowerChar(s[i])

\* str.lower(): the lowercase of the characters lo..hi of s, computed by
\* halves so that a long text needs no deep recursion.
RECURSIVE LowerFrom(_, _, _)
LowerFrom(s, lo, hi) ==
    IF lo > hi THEN <<>>
    ELSE IF lo = hi THEN LowerAt(s, lo)
    ELSE LowerFrom(s, lo, (lo + hi) \div 2) \o LowerFrom(s, (lo + hi) \div 2 + 1, hi)
lower(s) == LowerFrom(s, 1, Len(s))

\* s[:n] of Python, n >= 0 or n < 0.
SliceTo(s, n) ==
    IF n >= 0
    THEN SubSeq(s, 1, IF n < Len(s) THEN n ELSE Len(s))
    ELSE SubSeq(s, 1, IF Len(s) + n > 0 THEN Len(s) + n ELSE 0)

RECURSIVE rstrip(_)
rstrip(s) ==
    IF s # <<>> /\ IsSpace(s[Len(s)]) THEN rstrip(SubSeq(s, 1, Len(s) - 1)) ELSE s

RECURSIVE lstrip(_)
lstrip(s) ==
    IF s # <<>> /\ IsSpace(s[1]) THEN lstrip(Tail(s)) ELSE s

strip(s) == lstrip(rstrip(s))

\* Whether t occurs in s at position pos (1-based).
HasAt(s, pos, t) ==
    /\ pos >= 1
    /\ pos + Len(t) - 1 <= Len(s)
    /\ \A i \in 1..Len(t) : s[pos + i - 1] = t[i]

\* t in s
Contains(s, t) == \E pos \in 1..(Len(s) - Len(t) + 1) : HasAt(s, pos, t)

\* s.startswith(t)
StartsWith(s, t) == HasAt(s, 1, t)

\* s.find(t): the least position of t in s, 0 when there is none.
Find(s, t) ==
    IF Contains(s, t)
    THEN CHOOSE pos \in 1..(Len(s) - Len(t) + 1) :
             /\ HasAt(s, pos, t)
             /\ \A q \in 1..(pos - 1) : ~HasAt(s, q, t)
    ELSE 0

\* sep.join(parts)
RECURSIVE Join(_, _)
Join(sep, parts) ==
    IF parts = <<>> THEN <<>>
    ELSE IF Len(parts) = 1 THEN parts[1]
    ELSE parts[1] \o sep \o Join(sep, Tail(parts))

\* A Python int, which has no width, is its decimal numeral: the tuple of
\* its digits 0..9, the most significant first, <<0>> for zero.
RECURSIVE Numeral(_)
Numeral(ds) == IF Len(ds) > 1 /\ ds[1] = 0 THEN Numeral(Tail(ds)) ELSE ds

\* sys.get_int_max_str_digits(): int() of more digits is a ValueError.
IntMaxStrDigits == 4300
IntRaises(s) == Len(s) > IntMaxStrDigits

\* The value of a decimal digit.
DigitValue(c) ==
    (c - DigitRanges[2 * RangeIndex(DigitRanges, 2, c, 1,
                                    Len(DigitRanges) \div 2) - 1]) % 10

\* int(s) of a run of decimal digits s.
ParseInt(s) == Numeral([i \in 1..Len(s) |-> DigitValue(s[i])])

\* str(n) of a natural number n.
IntToStr(n) == [i \in 1..Len(n) |-> 48 + n[i]]

\* str.title(): a character after a cased one is lower-cased, any other is
\* title-cased.
RECURSIVE TitleFrom(_, _, _)
TitleFrom(s, i, prevCased) ==
    IF i > Len(s) THEN <<>>
    ELSE (IF prevCased THEN LowerAt(s, i) ELSE TitleChar(s[i]))
         \o TitleFrom(s, i + 1, IsCased(s[i]))
title(s) == TitleFrom(s, 1, FALSE)

-----------------------------------------------------------------------------
(* Regular expressions (re.search): a pattern is a tuple of items, matched *)
(* by backtracking with Python's preferences (alternatives in order,       *)
(* repetitions longest first).                                             *)

\* A literal.
Lit(t) == [t |-> "lit", v |-> t]
\* (a|b|...) over literals; cap: whether the parentheses are a group.
Alt(vs, cap) == [t |-> "alt", vs |-> vs, cap |-> cap]
\* A greedy repetition of a character class, at least min times.
Rep(cls, min, cap) == [t |-> "rep", cls |-> cls, min |-> min, cap |-> cap]
\* \b
WordB == [t |-> "b"]

\* \s+ , \s* , (.+) , (\d+) , ([a-zа-я0-9+\s]+) , x?
SpacePlus == Rep("space", 1, FALSE)
SpaceStar == Rep("space", 0, FALSE)
DotPlusG == Rep("dot", 1, TRUE)
DigitsG == Rep("digit", 1, TRUE)
HotkeyG == Rep("hotkey", 1, TRUE)
Opt(t) == Alt(<<t, <<>>>>, FALSE)

InClass(c, cls) ==
    CASE cls = "space" -> IsSpace(c)
      [] cls = "dot" -> c # 10
      [] cls = "digit" -> IsDigit(c)
      [] cls = "hotkey" ->
            \/ c \in 97..122
            \/ c \in 1072..1103
            \/ c \in 48..57
            \/ c = 43
            \/ IsSpace(c)

\* The length of the longest run of characters of cls that begins at lo and
\* ends at or before hi, computed by halves: the run of the second half counts
\* only when the first half is one run.
RunJoin(left, whole, right) == IF left = whole THEN left + right ELSE left
RECURSIVE RunIn(_, _, _, _)
RunIn(s, lo, hi, cls) ==
    IF lo > hi THEN 0
    ELSE IF lo = hi THEN (IF InClass(s[lo], cls) THEN 1 ELSE 0)
    ELSE RunJoin(RunIn(s, lo, (lo + hi) \div 2, cls), (lo + hi) \div 2 - lo + 1,
                 RunIn(s, (lo + hi) \div 2 + 1, hi, cls))

\* The length of the longest run of characters of cls in s from pos.
RunLen(s, pos, cls) == RunIn(s, pos, Len(s), cls)

AtBoundary(s, pos) ==
    LET before == pos > 1 /\ pos - 1 <= Len(s) /\ IsWordChar(s[pos - 1])
        after == pos >= 1 /\ pos <= Len(s) /\ IsWordChar(s[pos])
    IN before # after

NoMatch == [ok |-> FALSE, groups |-> <<>>]

\* The match r when it succeeded, the next attempt otherwise.
FirstOk(r, next) == IF r.ok THEN r ELSE next

RECURSIVE MatchAt(_, _, _, _, _)
RECURSIVE TryAlts(_, _, _, _, _, _)
RECURSIVE TryReps(_, _, _, _, _, _)

\* Items k.. of pattern re against s from pos, the groups so far being groups.
MatchAt(re, k, s, pos, groups) ==
    IF k > Len(re) THEN [ok |-> TRUE, groups |-> groups]
    ELSE LET it == re[k] IN
         CASE it.t = "lit" ->
                IF HasAt(s, pos, it.v)
                THEN MatchAt(re, k + 1, s, pos + Len(it.v), groups)
                ELSE NoMatch
           [] it.t = "b" ->
                IF AtBoundary(s, pos) THEN MatchAt(re, k + 1, s, pos, groups) ELSE NoMatch
           [] it.t = "alt" -> TryAlts(re, k, s, pos, groups, 1)
           [] it.t = "rep" -> TryReps(re, k, s, pos, groups, RunLen(s, pos, it.cls))

\* The alternatives j.. of item k, in order.
TryAlts(re, k, s, pos, groups, j) ==
    LET it == re[k] IN
    IF j > Len(it.vs) THEN NoMatch
    ELSE FirstOk(IF HasAt(s, pos, it.vs[j])
                 THEN MatchAt(re, k + 1, s, pos + Len(it.vs[j]),
                              IF it.cap THEN Append(groups, it.vs[j]) ELSE groups)
                 ELSE NoMatch,
                 TryAlts(re, k, s, pos, groups, j + 1))

\* n, n-1, ... repetitions of item k.
TryReps(re, k, s, pos, groups, n) ==
    LET it == re[k] IN
    IF n < it.min THEN NoMatch
    ELSE FirstOk(MatchAt(re, k + 1, s, pos + n,
                         IF it.cap THEN Append(groups, SubSeq(s, pos, pos + n - 1))
                         ELSE groups),
                 TryReps(re, k, s, pos, groups, n - 1))

\* The match of re in s that begins at the least position of lo..hi, by
\* halves: the second half is tried when the first has no match.
RECURSIVE SearchIn(_, _, _, _)
SearchIn(re, s, lo, hi) ==
    IF lo > hi THEN NoMatch
    ELSE IF lo = hi THEN MatchAt(re, 1, s, lo, <<>>)
    ELSE FirstOk(SearchIn(re, s, lo, (lo + hi) \div 2),
                 SearchIn(re, s, (lo + hi) \div 2 + 1, hi))

\* re.search(re, s): the leftmost match.
Search(re, s) == SearchIn(re, s, 1, Len(s) + 1)

-----------------------------------------------------------------------------
\* The string literals of orchestrator.py, by the line that holds them; the
\* comment of each gives a transliteration.
S == [
    \* line 158: "Aktyvuite mene kodovoiu frazoiu, shchob vykonaty komandu."
    MSG_IDLE |-> <<1040, 1082, 1090, 1080, 1074, 1091, 1081, 1090, 1077,
        32, 1084, 1077, 1085, 1077, 32, 1082, 1086, 1076, 1086, 1074, 1086,
        1102, 32, 1092, 1088, 1072, 1079, 1086, 1102, 44, 32, 1097, 1086,
        1073, 32, 1074, 1080, 1082, 1086, 1085, 1072, 1090, 1080, 32, 1082,
        1086, 1084, 1072, 1085, 1076, 1091, 46>>,
    \* line 242: "Tsiu diiu zaboroneno politykamy."
    MSG_POLICY_DENIED |-> <<1062, 1102, 32, 1076, 1110, 1102, 32, 1079,
        1072, 1073, 1086, 1088, 1086, 1085, 1077, 1085, 1086, 32, 1087, 1086,
        1083, 1110, 1090, 1080, 1082, 1072, 1084, 1080, 46>>,
    \* line 251: "Ne rozpiznala komandu. Sprobuite inakshe sformuliuvaty zapyt."
    MSG_UNKNOWN |-> <<1053, 1077, 32, 1088, 1086, 1079, 1087, 1110, 1079,
        1085, 1072, 1083, 1072, 32, 1082, 1086, 1084, 1072, 1085, 1076, 1091,
        46, 32, 1057, 1087, 1088, 1086, 1073, 1091, 1081, 1090, 1077, 32,
        1110, 1085, 1072, 1082, 1096, 1077, 32, 1089, 1092, 1086, 1088, 1084,
        1091, 1083, 1102, 1074, 1072, 1090, 1080, 32, 1079, 1072, 1087, 1080,
        1090, 46>>,
    \* line 187: "Potribna holosova komanda."
    NMI_MISSING_TRANSCRIPT |-> <<1055, 1086, 1090, 1088, 1110, 1073, 1085,
        1072, 32, 1075, 1086, 1083, 1086, 1089, 1086, 1074, 1072, 32, 1082,
        1086, 1084, 1072, 1085, 1076, 1072, 46>>,
    \* line 287: "vidkryi"
    W_vidkryi |-> <<1074, 1110, 1076, 1082, 1088, 1080, 1081>>,
    \* line 287: "zapusty"
    W_zapusty |-> <<1079, 1072, 1087, 1091, 1089, 1090, 1080>>,
    \* line 300: "Ne znaishla dodatok. Utochnit' nazvu."
    NMI_APP |-> <<1053, 1077, 32, 1079, 1085, 1072, 1081, 1096, 1083,
        1072, 32, 1076, 1086, 1076, 1072, 1090, 1086, 1082, 46, 32, 1059,
        1090, 1086, 1095, 1085, 1110, 1090, 1100, 32, 1085, 1072, 1079, 1074,
        1091, 46>>,
    \* line 301: "Ne znaishla takoho dodatka."
    TTS_APP_NOT_FOUND |-> <<1053, 1077, 32, 1079, 1085, 1072, 1081, 1096,
        1083, 1072, 32, 1090, 1072, 1082, 1086, 1075, 1086, 32, 1076, 1086,
        1076, 1072, 1090, 1082, 1072, 46>>,
    \* line 309: "Zapuskaiu "
    TTS_RUN_APP |-> <<1047, 1072, 1087, 1091, 1089, 1082, 1072, 1102, 32>>,
    \* line 309: "."
    DOT |-> <<46>>,
    \* line 314: "peremknys'"
    W_peremknys |-> <<1087, 1077, 1088, 1077, 1084, 1082, 1085, 1080,
        1089, 1100>>,
    \* line 314: "perekliuchys'"
    W_perekliuchys |-> <<1087, 1077, 1088, 1077, 1082, 1083, 1102, 1095,
        1080, 1089, 1100>>,
    \* line 314: "pereidy"
    W_pereidy |-> <<1087, 1077, 1088, 1077, 1081, 1076, 1080>>,
    \* line 314: "na"
    W_na |-> <<1085, 1072>>,
    \* line 324: "Ne znaishla vikno. Utochnit' nazvu."
    NMI_WINDOW |-> <<1053, 1077, 32, 1079, 1085, 1072, 1081, 1096, 1083,
        1072, 32, 1074, 1110, 1082, 1085, 1086, 46, 32, 1059, 1090, 1086,
        1095, 1085, 1110, 1090, 1100, 32, 1085, 1072, 1079, 1074, 1091, 46>>,
    \* line 325: "Ne znaishla takoho vikna."
    TTS_WINDOW_NOT_FOUND |-> <<1053, 1077, 32, 1079, 1085, 1072, 1081,
        1096, 1083, 1072, 32, 1090, 1072, 1082, 1086, 1075, 1086, 32, 1074,
        1110, 1082, 1085, 1072, 46>>,
    \* line 330: "Peremykaiusia na "
    TTS_FOCUS |-> <<1055, 1077, 1088, 1077, 1084, 1080, 1082, 1072, 1102,
        1089, 1103, 32, 1085, 1072, 32>>,
    \* line 335: "zakryi vikno"
    P_zakryi_vikno |-> <<1079, 1072, 1082, 1088, 1080, 1081, 32, 1074,
        1110, 1082, 1085, 1086>>,
    \* line 336: "alt"
    K_alt |-> <<97, 108, 116>>,
    \* line 336: "f4"
    K_f4 |-> <<102, 52>>,
    \* line 338: "Zakryvaiu aktyvne vikno."
    TTS_CLOSE_WINDOW |-> <<1047, 1072, 1082, 1088, 1080, 1074, 1072, 1102,
        32, 1072, 1082, 1090, 1080, 1074, 1085, 1077, 32, 1074, 1110, 1082,
        1085, 1086, 46>>,
    \* line 339: "Alt+F4"
    SLOT_ALT_F4 |-> <<65, 108, 116, 43, 70, 52>>,
    \* line 341: "zhorny vsi vikna"
    P_zhorny_vsi_vikna |-> <<1079, 1075, 1086, 1088, 1085, 1080, 32, 1074,
        1089, 1110, 32, 1074, 1110, 1082, 1085, 1072>>,
    \* line 341: "robochyi stil"
    P_robochyi_stil |-> <<1088, 1086, 1073, 1086, 1095, 1080, 1081, 32,
        1089, 1090, 1110, 1083>>,
    \* line 342: "win"
    K_win |-> <<119, 105, 110>>,
    \* line 342: "d"
    K_d |-> <<100>>,
    \* line 344: "Pokazuiu robochyi stil."
    TTS_SHOW_DESKTOP |-> <<1055, 1086, 1082, 1072, 1079, 1091, 1102, 32,
        1088, 1086, 1073, 1086, 1095, 1080, 1081, 32, 1089, 1090, 1110, 1083,
        46>>,
    \* line 345: "Win+D"
    SLOT_WIN_D |-> <<87, 105, 110, 43, 68>>,
    \* line 347: "natysn"
    W_natysn |-> <<1085, 1072, 1090, 1080, 1089, 1085>>,
    \* line 347: "y"
    W_y |-> <<1080>>,
    \* line 347: "uty"
    W_uty |-> <<1091, 1090, 1080>>,
    \* line 355: "Natyskaiu kombinatsiiu klavish."
    TTS_HOTKEY |-> <<1053, 1072, 1090, 1080, 1089, 1082, 1072, 1102, 32,
        1082, 1086, 1084, 1073, 1110, 1085, 1072, 1094, 1110, 1102, 32, 1082,
        1083, 1072, 1074, 1110, 1096, 46>>,
    \* line 356: "+"
    PLUS |-> <<43>>,
    \* line 362: "vymkny zvuk"
    P_vymkny_zvuk |-> <<1074, 1080, 1084, 1082, 1085, 1080, 32, 1079,
        1074, 1091, 1082>>,
    \* line 362: "bez zvuku"
    P_bez_zvuku |-> <<1073, 1077, 1079, 32, 1079, 1074, 1091, 1082, 1091>>,
    \* line 365: "Vymykaiu zvuk."
    TTS_MUTE |-> <<1042, 1080, 1084, 1080, 1082, 1072, 1102, 32, 1079,
        1074, 1091, 1082, 46>>,
    \* line 368: "huchnishe"
    W_huchnishe |-> <<1075, 1091, 1095, 1085, 1110, 1096, 1077>>,
    \* line 368: "tykhishe"
    W_tykhishe |-> <<1090, 1080, 1093, 1110, 1096, 1077>>,
    \* line 368: "%"
    PERCENT |-> <<37>>,
    \* line 377: "Rehuliuiu huchnist' na "
    TTS_VOLUME |-> <<1056, 1077, 1075, 1091, 1083, 1102, 1102, 32, 1075,
        1091, 1095, 1085, 1110, 1089, 1090, 1100, 32, 1085, 1072, 32>>,
    \* line 385: "wi-fi"
    PH_wifi |-> <<119, 105, 45, 102, 105>>,
    \* line 386: "vaifai"
    PH_vaifai |-> <<1074, 1072, 1081, 1092, 1072, 1081>>,
    \* line 387: "bluetooth"
    PH_bluetooth |-> <<98, 108, 117, 101, 116, 111, 111, 116, 104>>,
    \* line 388: "rezhym pol'otu"
    PH_rezhym_polotu |-> <<1088, 1077, 1078, 1080, 1084, 32, 1087, 1086,
        1083, 1100, 1086, 1090, 1091>>,
    \* line 391: "uvimkny "
    P_uvimkny_ |-> <<1091, 1074, 1110, 1084, 1082, 1085, 1080, 32>>,
    \* line 393: "vymkny "
    P_vymkny_ |-> <<1074, 1080, 1084, 1082, 1085, 1080, 32>>,
    \* line 398: "Peremykaiu "
    TTS_TOGGLE |-> <<1055, 1077, 1088, 1077, 1084, 1080, 1082, 1072, 1102,
        32>>,
    \* line 404: "vidkryi papku"
    P_vidkryi_papku |-> <<1074, 1110, 1076, 1082, 1088, 1080, 1081, 32,
        1087, 1072, 1087, 1082, 1091>>,
    \* line 413: "Ne znaishla papku. Utochnit' nazvu."
    NMI_FOLDER |-> <<1053, 1077, 32, 1079, 1085, 1072, 1081, 1096, 1083,
        1072, 32, 1087, 1072, 1087, 1082, 1091, 46, 32, 1059, 1090, 1086,
        1095, 1085, 1110, 1090, 1100, 32, 1085, 1072, 1079, 1074, 1091, 46>>,
    \* line 414: "Ne znaishla taku papku."
    TTS_FOLDER_NOT_FOUND |-> <<1053, 1077, 32, 1079, 1085, 1072, 1081,
        1096, 1083, 1072, 32, 1090, 1072, 1082, 1091, 32, 1087, 1072, 1087,
        1082, 1091, 46>>,
    \* line 419: "Vidkryvaiu papku "
    TTS_OPEN_FOLDER |-> <<1042, 1110, 1076, 1082, 1088, 1080, 1074, 1072,
        1102, 32, 1087, 1072, 1087, 1082, 1091, 32>>,
    \* line 424: "znaidy fail"
    P_znaidy_fail |-> <<1079, 1085, 1072, 1081, 1076, 1080, 32, 1092,
        1072, 1081, 1083>>,
    \* line 430: "Shukaiu faily za zapytom "
    TTS_FILE_SEARCH |-> <<1064, 1091, 1082, 1072, 1102, 32, 1092, 1072,
        1081, 1083, 1080, 32, 1079, 1072, 32, 1079, 1072, 1087, 1080, 1090,
        1086, 1084, 32>>,
    \* line 435: "pokazhy faily za s'ohodni"
    P_files_today |-> <<1087, 1086, 1082, 1072, 1078, 1080, 32, 1092,
        1072, 1081, 1083, 1080, 32, 1079, 1072, 32, 1089, 1100, 1086, 1075,
        1086, 1076, 1085, 1110>>,
    \* line 437: "pokazhy faily za vchora"
    P_files_yesterday |-> <<1087, 1086, 1082, 1072, 1078, 1080, 32, 1092,
        1072, 1081, 1083, 1080, 32, 1079, 1072, 32, 1074, 1095, 1086, 1088,
        1072>>,
    \* line 440: "pokazhy faily za ostanni"
    P_files_last |-> <<1087, 1086, 1082, 1072, 1078, 1080, 32, 1092, 1072,
        1081, 1083, 1080, 32, 1079, 1072, 32, 1086, 1089, 1090, 1072, 1085,
        1085, 1110>>,
    \* line 440: "dni"
    W_dni |-> <<1076, 1085, 1110>>,
    \* line 445: "Pokazuiu vidpovidni faily."
    TTS_FILE_LIST |-> <<1055, 1086, 1082, 1072, 1079, 1091, 1102, 32,
        1074, 1110, 1076, 1087, 1086, 1074, 1110, 1076, 1085, 1110, 32, 1092,
        1072, 1081, 1083, 1080, 46>>,
    \* line 450: "stvory papku"
    P_stvory_papku |-> <<1089, 1090, 1074, 1086, 1088, 1080, 32, 1087,
        1072, 1087, 1082, 1091>>,
    \* line 450: "tut"
    W_tut |-> <<1090, 1091, 1090>>,
    \* line 456: "Stvoriuiu papku "
    TTS_MKDIR |-> <<1057, 1090, 1074, 1086, 1088, 1102, 1102, 32, 1087,
        1072, 1087, 1082, 1091, 32>>,
    \* line 461: "vidkryi ostannii fail"
    P_vidkryi_ostannii_fail |-> <<1074, 1110, 1076, 1082, 1088, 1080,
        1081, 32, 1086, 1089, 1090, 1072, 1085, 1085, 1110, 1081, 32, 1092,
        1072, 1081, 1083>>,
    \* line 464: "Vidkryvaiu ostannii fail."
    TTS_OPEN_RECENT |-> <<1042, 1110, 1076, 1082, 1088, 1080, 1074, 1072,
        1102, 32, 1086, 1089, 1090, 1072, 1085, 1085, 1110, 1081, 32, 1092,
        1072, 1081, 1083, 46>>,
    \* line 469: "vstav"
    W_vstav |-> <<1074, 1089, 1090, 1072, 1074>>,
    \* line 469: "yty"
    W_yty |-> <<1080, 1090, 1080>>,
    \* line 469: " tekst"
    P__tekst |-> <<32, 1090, 1077, 1082, 1089, 1090>>,
    \* line 469: ":"
    COLON |-> <<58>>,
    \* line 475: "Vstavliaiu tekst."
    TTS_TEXT_INPUT |-> <<1042, 1089, 1090, 1072, 1074, 1083, 1103, 1102,
        32, 1090, 1077, 1082, 1089, 1090, 46>>,
    \* line 480: "poshuk"
    W_poshuk |-> <<1087, 1086, 1096, 1091, 1082>>,
    \* line 480: "znaidy"
    W_znaidy |-> <<1079, 1085, 1072, 1081, 1076, 1080>>,
    \* line 480: "v interneti:"
    P_v_interneti_colon |-> <<1074, 32, 1110, 1085, 1090, 1077, 1088,
        1085, 1077, 1090, 1110, 58>>,
    \* line 480: "v interneti"
    P_v_interneti |-> <<1074, 32, 1110, 1085, 1090, 1077, 1088, 1085,
        1077, 1090, 1110>>,
    \* line 483: "poshuk "
    P_poshuk_ |-> <<1087, 1086, 1096, 1091, 1082, 32>>,
    \* line 491: "Zapuskaiu poshuk."
    TTS_WEB_SEARCH |-> <<1047, 1072, 1087, 1091, 1089, 1082, 1072, 1102,
        32, 1087, 1086, 1096, 1091, 1082, 46>>,
    \* line 496: "ozvuch rezul'taty"
    P_ozvuch_rezultaty |-> <<1086, 1079, 1074, 1091, 1095, 32, 1088, 1077,
        1079, 1091, 1083, 1100, 1090, 1072, 1090, 1080>>,
    \* line 496: "prochytai rezul'taty"
    P_prochytai_rezultaty |-> <<1087, 1088, 1086, 1095, 1080, 1090, 1072,
        1081, 32, 1088, 1077, 1079, 1091, 1083, 1100, 1090, 1072, 1090, 1080>>,
    \* line 502: "Nemaie rezul'tativ dlia ozvuchennia."
    NMI_NO_RESULTS_SPEAK |-> <<1053, 1077, 1084, 1072, 1108, 32, 1088,
        1077, 1079, 1091, 1083, 1100, 1090, 1072, 1090, 1110, 1074, 32, 1076,
        1083, 1103, 32, 1086, 1079, 1074, 1091, 1095, 1077, 1085, 1085, 1103,
        46>>,
    \* line 503: "Rezul'taty nedostupni."
    TTS_NO_RESULTS |-> <<1056, 1077, 1079, 1091, 1083, 1100, 1090, 1072,
        1090, 1080, 32, 1085, 1077, 1076, 1086, 1089, 1090, 1091, 1087, 1085,
        1110, 46>>,
    \* line 519: ": "
    COLON_SPACE |-> <<58, 32>>,
    \* line 523: "Rezul'taty bez opysu."
    TTS_RESULTS_NO_DESCRIPTION |-> <<1056, 1077, 1079, 1091, 1083, 1100,
        1090, 1072, 1090, 1080, 32, 1073, 1077, 1079, 32, 1086, 1087, 1080,
        1089, 1091, 46>>,
    \* line 524: "; "
    SEMICOLON_SPACE |-> <<59, 32>>,
    \* line 528: "uvimkn"
    W_uvimkn |-> <<1091, 1074, 1110, 1084, 1082, 1085>>,
    \* line 528: " rezhym"
    P__rezhym |-> <<32, 1088, 1077, 1078, 1080, 1084>>,
    \* line 537: "Ne znaishla makros. Utochnit' nazvu."
    NMI_MACRO |-> <<1053, 1077, 32, 1079, 1085, 1072, 1081, 1096, 1083,
        1072, 32, 1084, 1072, 1082, 1088, 1086, 1089, 46, 32, 1059, 1090,
        1086, 1095, 1085, 1110, 1090, 1100, 32, 1085, 1072, 1079, 1074, 1091,
        46>>,
    \* line 538: "Ne znaishla takyi rezhym."
    TTS_MACRO_NOT_FOUND |-> <<1053, 1077, 32, 1079, 1085, 1072, 1081,
        1096, 1083, 1072, 32, 1090, 1072, 1082, 1080, 1081, 32, 1088, 1077,
        1078, 1080, 1084, 46>>,
    \* line 543: "Aktyvuiu rezhym "
    TTS_RUN_MACRO |-> <<1040, 1082, 1090, 1080, 1074, 1091, 1102, 32,
        1088, 1077, 1078, 1080, 1084, 32>>,
    \* line 548: "uzahal'ny"
    P_uzahalny |-> <<1091, 1079, 1072, 1075, 1072, 1083, 1100, 1085,
        1080>>,
    \* line 548: "pidsumui"
    P_pidsumui |-> <<1087, 1110, 1076, 1089, 1091, 1084, 1091, 1081>>,
    \* line 553: "Nemaie rezul'tativ dlia uzahal'nennia."
    NMI_NO_RESULTS_SUMMARIZE |-> <<1053, 1077, 1084, 1072, 1108, 32, 1088,
        1077, 1079, 1091, 1083, 1100, 1090, 1072, 1090, 1110, 1074, 32, 1076,
        1083, 1103, 32, 1091, 1079, 1072, 1075, 1072, 1083, 1100, 1085, 1077,
        1085, 1085, 1103, 46>>,
    \* line 554: "Potribni rezul'taty poshuku."
    TTS_NEED_RESULTS |-> <<1055, 1086, 1090, 1088, 1110, 1073, 1085, 1110,
        32, 1088, 1077, 1079, 1091, 1083, 1100, 1090, 1072, 1090, 1080, 32,
        1087, 1086, 1096, 1091, 1082, 1091, 46>>,
    \* line 564: "Peredaiu rezul'taty dlia uzahal'nennia."
    TTS_LLM_SUMMARIZE |-> <<1055, 1077, 1088, 1077, 1076, 1072, 1102, 32,
        1088, 1077, 1079, 1091, 1083, 1100, 1090, 1072, 1090, 1080, 32, 1076,
        1083, 1103, 32, 1091, 1079, 1072, 1075, 1072, 1083, 1100, 1085, 1077,
        1085, 1085, 1103, 46>>,
    \* line 569: "poiasny"
    W_poiasny |-> <<1087, 1086, 1103, 1089, 1085, 1080>>,
    \* line 569: "shcho take"
    P_shcho_take |-> <<1097, 1086, 32, 1090, 1072, 1082, 1077>>,
    \* line 569: "rozkazhy"
    W_rozkazhy |-> <<1088, 1086, 1079, 1082, 1072, 1078, 1080>>,
    \* line 569: "pro"
    W_pro |-> <<1087, 1088, 1086>>,
    \* line 577: "Styslo ta zrozumilo poiasny nastupne ukrains'koiu movoiu. Ne vyhadui faktiv i dotrymuisia tonu dlia holosovoho ozvuchennia.\nTema: "
    PROMPT_PREFIX |-> <<1057, 1090, 1080, 1089, 1083, 1086, 32, 1090,
        1072, 32, 1079, 1088, 1086, 1079, 1091, 1084, 1110, 1083, 1086, 32,
        1087, 1086, 1103, 1089, 1085, 1080, 32, 1085, 1072, 1089, 1090, 1091,
        1087, 1085, 1077, 32, 1091, 1082, 1088, 1072, 1111, 1085, 1089, 1100,
        1082, 1086, 1102, 32, 1084, 1086, 1074, 1086, 1102, 46, 32, 1053,
        1077, 32, 1074, 1080, 1075, 1072, 1076, 1091, 1081, 32, 1092, 1072,
        1082, 1090, 1110, 1074, 32, 1110, 32, 1076, 1086, 1090, 1088, 1080,
        1084, 1091, 1081, 1089, 1103, 32, 1090, 1086, 1085, 1091, 32, 1076,
        1083, 1103, 32, 1075, 1086, 1083, 1086, 1089, 1086, 1074, 1086, 1075,
        1086, 32, 1086, 1079, 1074, 1091, 1095, 1077, 1085, 1085, 1103, 46,
        10, 1058, 1077, 1084, 1072, 58, 32>>,
    \* line 584: "Zapytuiu poiasnennia u movnoi modeli."
    TTS_LLM_QUERY |-> <<1047, 1072, 1087, 1080, 1090, 1091, 1102, 32,
        1087, 1086, 1103, 1089, 1085, 1077, 1085, 1085, 1103, 32, 1091, 32,
        1084, 1086, 1074, 1085, 1086, 1111, 32, 1084, 1086, 1076, 1077, 1083,
        1110, 46>>,
    \* line 591: "vymkny komp'iuter"
    P_vymkny_kompiuter |-> <<1074, 1080, 1084, 1082, 1085, 1080, 32, 1082,
        1086, 1084, 1087, 39, 1102, 1090, 1077, 1088>>,
    \* line 592: "Vymknuty komp'iuter?"
    PHRASE_SHUTDOWN |-> <<1042, 1080, 1084, 1082, 1085, 1091, 1090, 1080,
        32, 1082, 1086, 1084, 1087, 39, 1102, 1090, 1077, 1088, 63>>,
    \* line 593: "perezavantazh"
    P_perezavantazh |-> <<1087, 1077, 1088, 1077, 1079, 1072, 1074, 1072,
        1085, 1090, 1072, 1078>>,
    \* line 594: "Perezavantazhyty komp'iuter?"
    PHRASE_RESTART |-> <<1055, 1077, 1088, 1077, 1079, 1072, 1074, 1072,
        1085, 1090, 1072, 1078, 1080, 1090, 1080, 32, 1082, 1086, 1084, 1087,
        39, 1102, 1090, 1077, 1088, 63>>,
    \* line 595: "vydaly fail"
    P_vydaly_fail |-> <<1074, 1080, 1076, 1072, 1083, 1080, 32, 1092,
        1072, 1081, 1083>>,
    \* line 599: "Vydalyty fail "
    PHRASE_DELETE |-> <<1042, 1080, 1076, 1072, 1083, 1080, 1090, 1080,
        32, 1092, 1072, 1081, 1083, 32>>,
    \* line 599: "?"
    QUESTION |-> <<63>>,
    \* line 610: "Potribne pidtverdzhennia."
    TTS_CONFIRM |-> <<1055, 1086, 1090, 1088, 1110, 1073, 1085, 1077, 32,
        1087, 1110, 1076, 1090, 1074, 1077, 1088, 1076, 1078, 1077, 1085,
        1085, 1103, 46>>,
    \* line 70: "..."
    ELLIPSIS |-> <<8230>>
]


-----------------------------------------------------------------------------
(* The response template, the TTS formatter, the entity resolver and the   *)
(* policy gate                                                             *)

\* SUPPORTED_ACTIONS
SUPPORTED_ACTIONS ==
    {"run_app", "focus_window", "hotkey", "audio_control", "system_toggle",
     "open_folder", "file_search", "file_list", "mkdir_here", "open_recent",
     "text_input", "web_search", "speak_results", "run_macro", "llm_query",
     "llm_summarize", "none"}

\* _base_response(): the canonical empty response.
_base_response ==
    [action |-> "none",
     params |-> EmptyDict,
     confirmation |-> [required |-> FALSE, phrase |-> <<>>],
     tts |-> [say |-> <<>>, display |-> <<>>],
     log |-> [intent_detected |-> "",
              confidence |-> 0,
              slots |-> EmptyDict,
              policy_checks |-> <<>>,
              resolution |-> EmptyDict,
              errors |-> <<>>],
     need_more_info |-> <<>>]

\* _apply_tts_limit(text, max_chars)
_apply_tts_limit(t, limit) ==
    IF limit = NoInt \/ Len(t) <= limit[1]
    THEN t
    ELSE rstrip(SliceTo(t, limit[1] - 1)) \o S.ELLIPSIS

\* An entity that _resolve_dict did not find (None).
NoEntry == [none |-> TRUE]

\* A lookup that takes an entry one of whose names contains the spoken name.
EntryContains(entry, name_lower) ==
    \E key \in {"name", "title", "label"} :
        LET value == GetField(entry, key, None)
        IN Truthy(value) /\ Contains(lower(value), name_lower)

\* Whether entry carries name_lower under one of the keys name, title, label.
EntryMatches(entry, name_lower) ==
    \E key \in {"name", "title", "label"} :
        LET value == GetField(entry, key, None)
        IN Truthy(value) /\ lower(value) = name_lower

\* _resolve_dict(entries, name): the first entry that matches.
RECURSIVE ResolveFrom(_, _, _)
ResolveFrom(entries, name_lower, i) ==
    IF i > Len(entries) THEN NoEntry
    ELSE IF EntryMatches(entries[i], name_lower) THEN entries[i]
    ELSE ResolveFrom(entries, name_lower, i + 1)
_resolve_dict(entries, name) == ResolveFrom(entries, lower(name), 1)

\* _match_alias(aliases, spoken): maps_to of the first alias named spoken, or None.
RECURSIVE AliasFrom(_, _, _)
AliasFrom(aliases, spoken_lower, i) ==
    IF i > Len(aliases) THEN None
    ELSE LET name == GetField(aliases[i], "name", None)
             target == GetField(aliases[i], "maps_to", None)
         IN IF Truthy(name) /\ Truthy(target) /\ lower(name) = spoken_lower
            THEN target
            ELSE AliasFrom(aliases, spoken_lower, i + 1)

\* An alias lookup that follows an alias of the alias as well.
MatchAliasTwice(aliases, said) ==
    LET once == AliasFrom(aliases, lower(said), 1)
    IN IF once = None THEN None
       ELSE LET twice == AliasFrom(aliases, lower(once), 1)
            IN IF twice = None THEN once ELSE twice

_match_alias(aliases, said) == AliasFrom(aliases, lower(said), 1)

\* A table that gates macros and the reading of results as well.
MappingWithMacro ==
    [run_app |-> "allow_run_apps",
     focus_window |-> "allow_run_apps",
     hotkey |-> "allow_hotkeys",
     audio_control |-> "allow_audio",
     system_toggle |-> "allow_system_toggle",
     open_folder |-> "allow_file_ops",
     file_search |-> "allow_file_ops",
     file_list |-> "allow_file_ops",
     mkdir_here |-> "allow_file_ops",
     open_recent |-> "allow_file_ops",
     text_input |-> "dictation",
     web_search |-> "allow_network_search",
     llm_query |-> "allow_llm_query",
     llm_summarize |-> "allow_llm_summarize",
     run_macro |-> "allow_run_apps",
     speak_results |-> "allow_llm_summarize"]

\* The static table of _policy_gate_checks: action -> policy flag.
mapping ==
    [run_app |-> "allow_run_apps",
     focus_window |-> "allow_run_apps",
     hotkey |-> "allow_hotkeys",
     audio_control |-> "allow_audio",
     system_toggle |-> "allow_system_toggle",
     open_folder |-> "allow_file_ops",
     file_search |-> "allow_file_ops",
     file_list |-> "allow_file_ops",
     mkdir_here |-> "allow_file_ops",
     open_recent |-> "allow_file_ops",
     text_input |-> "dictation",
     web_search |-> "allow_network_search",
     llm_query |-> "allow_llm_query",
     llm_summarize |-> "allow_llm_summarize"]

\* A gate that takes an absent flag for a granted one.
GateAbsentGranted(action, policies) ==
    IF action \notin DOMAIN mapping
    THEN <<>>
    ELSE <<[name |-> mapping[action],
            allowed |-> GetField(policies, mapping[action], TRUE),
            deny_action |-> "policy_violation"]>>

\* A gate that asks for the dictation flag as well, unless it is absent.
GateNeedsDictationToo(action, policies) ==
    IF action \notin DOMAIN mapping
    THEN <<>>
    ELSE <<[name |-> mapping[action],
            allowed |-> /\ GetField(policies, mapping[action], FALSE)
                        /\ GetField(policies, "dictation", TRUE),
            deny_action |-> "policy_violation"]>>

\* _policy_gate_checks(action, policies): the list of PolicyGate evaluations.
_policy_gate_checks(action, policies) ==
    IF action \notin DOMAIN mapping
    THEN <<>>
    ELSE <<[name |-> mapping[action],
            allowed |-> GetField(policies, mapping[action], FALSE),
            deny_action |-> "policy_violation"]>>

\* A record of the gates that keeps the refused ones only.
SetChecksDeniedOnly(r, gates) ==
    [r EXCEPT !.log.policy_checks =
        IF \E i \in 1..Len(gates) : ~gates[i].allowed
        THEN [i \in 1..Len(gates) |-> [policy |-> gates[i].name, status |-> "denied"]]
        ELSE <<>>]

\* _set_policy_checks(response, gates)
_set_policy_checks(r, gates) ==
    [r EXCEPT !.log.policy_checks =
        [i \in 1..Len(gates) |->
            [policy |-> gates[i].name,
             status |-> IF gates[i].allowed THEN "granted" ELSE "denied"]]]

\* The value _deny_for_policy returns: whether some gate is not allowed.
Denied(gates) == \E i \in 1..Len(gates) : ~gates[i].allowed

\* A denial that names the action "denied".
DenyAsDenied(r, gates) ==
    IF \E i \in 1..Len(gates) : ~gates[i].allowed
    THEN [r EXCEPT !.action = "denied",
                   !.params = EmptyDict,
                   !.log.errors = Append(@, "policy_violation"),
                   !.log.resolution = [denied_policy |-> gates[1].name]]
    ELSE r

\* A denial that leaves log.resolution as the handler made it.
DenyKeepsResolution(r, gates) ==
    IF \E i \in 1..Len(gates) : ~gates[i].allowed
    THEN [r EXCEPT !.action = "none",
                   !.params = EmptyDict,
                   !.log.errors = Append(@, "policy_violation")]
    ELSE r

\* _deny_for_policy(response, gates): what it does to the response.
_deny_for_policy(r, gates) ==
    IF Denied(gates)
    THEN LET i == CHOOSE j \in 1..Len(gates) :
                      ~gates[j].allowed /\ \A h \in 1..(j - 1) : gates[h].allowed
         IN [r EXCEPT !.action = "none",
                      !.params = EmptyDict,
                      !.log.errors = Append(@, gates[i].deny_action),
                      !.log.resolution = [denied_policy |-> gates[i].name]]
    ELSE r

\* A confirmation that records the phrase and does not require it.
ConfirmationNotRequired(r, phrase) ==
    [r EXCEPT !.confirmation = [required |-> FALSE, phrase |-> phrase]]

\* A confirmation that is required without a phrase.
ConfirmationWithoutPhrase(r, phrase) ==
    [r EXCEPT !.confirmation = [required |-> TRUE, phrase |-> <<>>]]

\* _make_confirmation(response, phrase)
_make_confirmation(r, phrase) ==
    [r EXCEPT !.confirmation = [required |-> TRUE, phrase |-> phrase]]

-----------------------------------------------------------------------------
(* Intent handlers                                                         *)

\* The dataclass IntentResult; resolution None is the empty dict (both falsy).
IntentResult(resp, confidence, slots, tts, resolution) ==
    [response |-> resp, confidence |-> confidence, slots |-> slots,
     tts |-> tts, resolution |-> resolution]

\* A handler's None.
NoResult == [none |-> TRUE]

\* _intent_response(action, params)
_intent_response(action, params) ==
    [action |-> action,
     params |-> params,
     confirmation |-> [required |-> FALSE, phrase |-> <<>>],
     tts |-> [say |-> <<>>, display |-> <<>>],
     log |-> [intent_detected |-> "",
              confidence |-> 0,
              slots |-> EmptyDict,
              policy_checks |-> <<>>,
              resolution |-> EmptyDict,
              errors |-> <<>>],
     need_more_info |-> <<>>]

\* The text an f-string puts for a value: "None" for None.
Fmt(v) == IF v = None THEN <<78, 111, 110, 101>> ELSE v

\* r"\b(відкрий|запусти)\s+(.+)"
RunAppRe == <<WordB, Alt(<<S.W_vidkryi, S.W_zapusty>>, TRUE), SpacePlus, DotPlusG>>

_handle_run_app(transcript, p, kwargs) ==
    LET m == Search(RunAppRe, transcript) IN
    IF ~m.ok THEN NoResult
    ELSE
    LET said == strip(m.groups[2])
        alias == _match_alias(kwargs.aliases, said)
        target_name == IF Truthy(alias) THEN alias ELSE said
        app == _resolve_dict(kwargs.apps, target_name)
    IN
    IF app = NoEntry
    THEN IntentResult(
            [_intent_response("none", EmptyDict) EXCEPT !.need_more_info = S.NMI_APP],
            40, [app |-> said], S.TTS_APP_NOT_FOUND, EmptyDict)
    ELSE
    LET params == [app |-> GetField(app, "name", target_name),
                   path |-> GetField(app, "path", None)]
        resolution == [app_id |-> GetField(app, "id", None), spoken |-> said]
    IN IntentResult(_intent_response("run_app", params), 85, [app |-> params.app],
                    S.TTS_RUN_APP \o Fmt(params.app) \o S.DOT, resolution)

\* r"\b(перемкнись|переключись|перейди)\s+на\s+(.+)"
FocusWindowRe ==
    <<WordB, Alt(<<S.W_peremknys, S.W_perekliuchys, S.W_pereidy>>, TRUE),
      SpacePlus, Lit(S.W_na), SpacePlus, DotPlusG>>

_handle_focus_window(transcript, p, kwargs) ==
    LET m == Search(FocusWindowRe, transcript) IN
    IF ~m.ok THEN NoResult
    ELSE
    LET said == strip(m.groups[2])
        target == _resolve_dict(kwargs.windows, said)
    IN
    IF target = NoEntry
    THEN IntentResult(
            [_intent_response("none", EmptyDict) EXCEPT !.need_more_info = S.NMI_WINDOW],
            40, [window |-> said], S.TTS_WINDOW_NOT_FOUND, EmptyDict)
    ELSE
    LET params == [window |-> GetField(target, "name", said),
                   id |-> GetField(target, "id", None)]
        resolution == [window_id |-> GetField(target, "id", None), spoken |-> said]
    IN IntentResult(_intent_response("focus_window", params), 80,
                    [window |-> params.window],
                    S.TTS_FOCUS \o Fmt(params.window) \o S.DOT, resolution)

\* re.split(r"[+ ]", combo): the pieces between the characters "+" and " ".
RECURSIVE SplitFrom(_, _, _)
SplitFrom(s, i, piece) ==
    IF i > Len(s) THEN <<piece>>
    ELSE IF s[i] \in {43, 32} THEN <<piece>> \o SplitFrom(s, i + 1, <<>>)
    ELSE SplitFrom(s, i + 1, Append(piece, s[i]))
Split(s) == SplitFrom(s, 1, <<>>)

\* [k.strip().lower() for k in pieces if k.strip()]
RECURSIVE Keys(_)
Keys(pieces) ==
    IF pieces = <<>> THEN <<>>
    ELSE IF strip(pieces[1]) # <<>>
         THEN <<lower(strip(pieces[1]))>> \o Keys(Tail(pieces))
         ELSE Keys(Tail(pieces))

\* r"натисн(и|ути)\s+([a-zа-я0-9+\s]+)"
HotkeyRe == <<Lit(S.W_natysn), Alt(<<S.W_y, S.W_uty>>, TRUE), SpacePlus, HotkeyG>>

_handle_hotkey(transcript, p, kwargs) ==
    IF Contains(transcript, S.P_zakryi_vikno)
    THEN IntentResult(_intent_response("hotkey", [keys |-> <<S.K_alt, S.K_f4>>]), 90,
                      [keys |-> S.SLOT_ALT_F4], S.TTS_CLOSE_WINDOW, EmptyDict)
    ELSE IF Contains(transcript, S.P_zhorny_vsi_vikna)
            \/ Contains(transcript, S.P_robochyi_stil)
    THEN IntentResult(_intent_response("hotkey", [keys |-> <<S.K_win, S.K_d>>]), 90,
                      [keys |-> S.SLOT_WIN_D], S.TTS_SHOW_DESKTOP, EmptyDict)
    ELSE
    LET m == Search(HotkeyRe, transcript) IN
    IF ~m.ok THEN NoResult
    ELSE
    LET keys == Keys(Split(m.groups[2])) IN
    IF keys = <<>> THEN NoResult
    ELSE IntentResult(_intent_response("hotkey", [keys |-> keys]), 70,
                      [keys |-> Join(S.PLUS, [i \in 1..Len(keys) |-> title(keys[i])])],
                      S.TTS_HOTKEY, EmptyDict)

\* r"(гучніше|тихіше)\s+на\s+(\d+)%"
VolumeRe ==
    <<Alt(<<S.W_huchnishe, S.W_tykhishe>>, TRUE), SpacePlus, Lit(S.W_na), SpacePlus,
      DigitsG, Lit(S.PERCENT)>>

_handle_audio_control(transcript, p, kwargs) ==
    IF Contains(transcript, S.P_vymkny_zvuk) \/ Contains(transcript, S.P_bez_zvuku)
    THEN IntentResult(_intent_response("audio_control", [operation |-> "mute"]), 90,
                      EmptyDict, S.TTS_MUTE, EmptyDict)
    ELSE
    LET m == Search(VolumeRe, transcript) IN
    IF ~m.ok THEN NoResult
    ELSE
    LET direction == m.groups[1]
        value == ParseInt(m.groups[2])
        params == [operation |-> IF direction = S.W_huchnishe
                                 THEN "volume_up" ELSE "volume_down",
                   amount |-> value]
    IN IntentResult(_intent_response("audio_control", params), 85,
                    [amount |-> value, direction |-> direction],
                    S.TTS_VOLUME \o IntToStr(value) \o S.PERCENT, EmptyDict)

\* The dict toggles, in its order: phrase -> feature.
toggles ==
    <<[phrase |-> S.PH_wifi, feature |-> "wifi"],
      [phrase |-> S.PH_vaifai, feature |-> "wifi"],
      [phrase |-> S.PH_bluetooth, feature |-> "bluetooth"],
      [phrase |-> S.PH_rezhym_polotu, feature |-> "airplane_mode"]>>

RECURSIVE ToggleFrom(_, _)
ToggleFrom(transcript, i) ==
    IF i > Len(toggles) THEN NoResult
    ELSE
    LET phrase == toggles[i].phrase
        feature == toggles[i].feature
        on == Contains(transcript, S.P_uvimkny_ \o phrase)
        off == Contains(transcript, S.P_vymkny_ \o phrase)
    IN
    IF on \/ off
    THEN LET params == [feature |-> feature, state |-> IF on THEN "on" ELSE "off"]
         IN IntentResult(_intent_response("system_toggle", params), 85,
                         [feature |-> feature, state |-> params.state],
                         S.TTS_TOGGLE \o phrase \o S.DOT, EmptyDict)
    ELSE ToggleFrom(transcript, i + 1)

_handle_system_toggle(transcript, p, kwargs) == ToggleFrom(transcript, 1)

\* r"відкрий папку\s+(.+)"
OpenFolderRe == <<Lit(S.P_vidkryi_papku), SpacePlus, DotPlusG>>

_handle_open_folder(transcript, p, kwargs) ==
    LET m == Search(OpenFolderRe, transcript) IN
    IF ~m.ok THEN NoResult
    ELSE
    LET said == strip(m.groups[1])
        folder == _resolve_dict(kwargs.folders, said)
    IN
    IF folder = NoEntry
    THEN IntentResult(
            [_intent_response("none", EmptyDict) EXCEPT !.need_more_info = S.NMI_FOLDER],
            40, [folder |-> said], S.TTS_FOLDER_NOT_FOUND, EmptyDict)
    ELSE
    LET params == [path |-> GetField(folder, "path", None),
                   name |-> GetField(folder, "name", said)]
        resolution == [folder_path |-> GetField(folder, "path", None), spoken |-> said]
    IN IntentResult(_intent_response("open_folder", params), 80,
                    [folder |-> params.name],
                    S.TTS_OPEN_FOLDER \o Fmt(params.name) \o S.DOT, resolution)

\* r"знайди файл\s+(.+)"
FileSearchRe == <<Lit(S.P_znaidy_fail), SpacePlus, DotPlusG>>

_handle_file_search(transcript, p, kwargs) ==
    LET m == Search(FileSearchRe, transcript) IN
    IF ~m.ok THEN NoResult
    ELSE
    LET query == strip(m.groups[1])
    IN IntentResult(_intent_response("file_search", [query |-> query]), 75,
                    [query |-> query], S.TTS_FILE_SEARCH \o query \o S.DOT, EmptyDict)

\* r"покажи файли за останні\s+(\d+)\s+дні"
FileListRe == <<Lit(S.P_files_last), SpacePlus, DigitsG, SpacePlus, Lit(S.W_dni)>>

_handle_file_list(transcript, p, kwargs) ==
    LET m == Search(FileListRe, transcript)
        matched == \/ Contains(transcript, S.P_files_today)
                   \/ Contains(transcript, S.P_files_yesterday)
                   \/ m.ok
        params == IF Contains(transcript, S.P_files_today)
                  THEN [time_filter |-> "today"]
                  ELSE IF Contains(transcript, S.P_files_yesterday)
                  THEN [time_filter |-> "yesterday"]
                  ELSE [time_filter |-> "last_n_days", days |-> ParseInt(m.groups[1])]
    IN IF ~matched THEN NoResult
       ELSE IntentResult(_intent_response("file_list", params), 70, params,
                         S.TTS_FILE_LIST, EmptyDict)

\* r"створи папку\s+(.+)\s+тут"
MkdirRe == <<Lit(S.P_stvory_papku), SpacePlus, DotPlusG, SpacePlus, Lit(S.W_tut)>>

_handle_mkdir_here(transcript, p, kwargs) ==
    LET m == Search(MkdirRe, transcript) IN
    IF ~m.ok THEN NoResult
    ELSE
    LET folder_name == strip(m.groups[1])
    IN IntentResult(_intent_response("mkdir_here", [name |-> folder_name]), 75,
                    [folder |-> folder_name], S.TTS_MKDIR \o folder_name \o S.DOT,
                    EmptyDict)

_handle_open_recent(transcript, p, kwargs) ==
    IF ~Contains(transcript, S.P_vidkryi_ostannii_fail) THEN NoResult
    ELSE IntentResult(_intent_response("open_recent", EmptyDict), 70, EmptyDict,
                      S.TTS_OPEN_RECENT, EmptyDict)

\* r"встав(ити|и) текст:?\s+(.+)"
TextInputRe ==
    <<Lit(S.W_vstav), Alt(<<S.W_yty, S.W_y>>, TRUE), Lit(S.P__tekst), Opt(S.COLON),
      SpacePlus, DotPlusG>>

_handle_text_input(transcript, p, kwargs) ==
    LET m == Search(TextInputRe, transcript) IN
    IF ~m.ok THEN NoResult
    ELSE
    LET txt == strip(m.groups[2])
    IN IntentResult(_intent_response("text_input", [text |-> txt]), 75,
                    [text |-> txt], S.TTS_TEXT_INPUT, EmptyDict)

\* r"(пошук|знайди)\s+(в інтернеті:|в інтернеті|:)\s*(.+)"
WebSearchRe ==
    <<Alt(<<S.W_poshuk, S.W_znaidy>>, TRUE), SpacePlus,
      Alt(<<S.P_v_interneti_colon, S.P_v_interneti, S.COLON>>, TRUE), SpaceStar,
      DotPlusG>>

\* A web search that always names the default engine.
WebSearchAlwaysGoogle(transcript, p, kwargs) ==
    LET m == Search(WebSearchRe, transcript)
        prefixed == StartsWith(transcript, S.P_poshuk_)
    IN
    IF ~m.ok /\ ~prefixed THEN NoResult
    ELSE
    LET query == IF m.ok
                 THEN strip(m.groups[3])
                 ELSE strip(SubSeq(transcript, Len(S.P_poshuk_) + 1, Len(transcript)))
    IN IntentResult(_intent_response("web_search", [engine |-> "google", query |-> query]),
                    80, [query |-> query], S.TTS_WEB_SEARCH, EmptyDict)

_handle_web_search(transcript, p, kwargs) ==
    LET m == Search(WebSearchRe, transcript)
        prefixed == StartsWith(transcript, S.P_poshuk_)
    IN
    IF ~m.ok /\ ~prefixed THEN NoResult
    ELSE
    LET query == IF m.ok
                 THEN strip(m.groups[3])
                 ELSE strip(SubSeq(transcript, Len(S.P_poshuk_) + 1, Len(transcript)))
        engine == GetField(p, "default_search_engine", "google")
    IN IntentResult(_intent_response("web_search", [engine |-> engine, query |-> query]),
                    80, [query |-> query], S.TTS_WEB_SEARCH, EmptyDict)

\* a or b of two optional strs
OrElse(a, b) == IF Truthy(a) THEN a ELSE b

\* _summarize_result_set(result_set)
RECURSIVE TopItems(_)
TopItems(items) ==
    IF items = <<>> THEN <<>>
    ELSE
    LET item == items[1]
        ttl == OrElse(GetField(item, "title", None), GetField(item, "name", None))
        summary == OrElse(GetField(item, "snippet", None), GetField(item, "summary", None))
    IN
    IF ~Truthy(ttl) THEN TopItems(Tail(items))
    ELSE IF Truthy(summary)
         THEN <<ttl \o S.COLON_SPACE \o summary>> \o TopItems(Tail(items))
         ELSE <<ttl>> \o TopItems(Tail(items))

_summarize_result_set(result_set) ==
    LET top_items == TopItems(SliceTo(result_set, 3))
    IN IF top_items = <<>> THEN S.TTS_RESULTS_NO_DESCRIPTION
       ELSE Join(S.SEMICOLON_SPACE, top_items)

_handle_speak_results(transcript, p, kwargs) ==
    IF ~Contains(transcript, S.P_ozvuch_rezultaty)
       /\ ~Contains(transcript, S.P_prochytai_rezultaty)
    THEN NoResult
    ELSE IF FalsyList(GetField(kwargs, "result_set", <<>>))
    THEN IntentResult(
            [_intent_response("none", EmptyDict)
                EXCEPT !.need_more_info = S.NMI_NO_RESULTS_SPEAK],
            40, EmptyDict, S.TTS_NO_RESULTS, EmptyDict)
    ELSE
    LET snippet == _summarize_result_set(kwargs.result_set)
    IN IntentResult(
            [_intent_response("speak_results", [source |-> "result_set"])
                EXCEPT !.tts.say = snippet],
            80, [items |-> Len(kwargs.result_set)], snippet, EmptyDict)

\* r"увімкн(и|ути) режим\s+(.+)"
RunMacroRe ==
    <<Lit(S.W_uvimkn), Alt(<<S.W_y, S.W_uty>>, TRUE), Lit(S.P__rezhym), SpacePlus,
      DotPlusG>>

_handle_run_macro(transcript, p, kwargs) ==
    LET m == Search(RunMacroRe, transcript) IN
    IF ~m.ok THEN NoResult
    ELSE
    LET said == strip(m.groups[2])
        macro == _resolve_dict(kwargs.macros, said)
    IN
    IF macro = NoEntry
    THEN IntentResult(
            [_intent_response("none", EmptyDict) EXCEPT !.need_more_info = S.NMI_MACRO],
            40, [macro |-> said], S.TTS_MACRO_NOT_FOUND, EmptyDict)
    ELSE
    LET params == [macro_id |-> GetField(macro, "id", None),
                   name |-> GetField(macro, "name", said)]
        resolution == [macro_id |-> GetField(macro, "id", None), spoken |-> said]
    IN IntentResult(_intent_response("run_macro", params), 80,
                    [macro |-> params.name],
                    S.TTS_RUN_MACRO \o Fmt(params.name) \o S.DOT, resolution)

\* A summarize handler that does not ask whether there are results.
SummarizeWithoutResults(transcript, p, kwargs) ==
    IF ~Contains(transcript, S.P_uzahalny) /\ ~Contains(transcript, S.P_pidsumui)
    THEN NoResult
    ELSE
    LET params == [source |-> "web_search",
                   max_sentences |-> 3,
                   style |-> "concise_voice_output",
                   context_keys |-> <<"result_set">>]
    IN IntentResult(_intent_response("llm_summarize", params), 80, EmptyDict,
                    S.TTS_LLM_SUMMARIZE, [llm_context |-> "result_set"])

_handle_llm_summarize(transcript, p, kwargs) ==
    IF ~Contains(transcript, S.P_uzahalny) /\ ~Contains(transcript, S.P_pidsumui)
    THEN NoResult
    ELSE IF FalsyList(GetField(kwargs, "result_set", <<>>))
    THEN IntentResult(
            [_intent_response("none", EmptyDict)
                EXCEPT !.need_more_info = S.NMI_NO_RESULTS_SUMMARIZE],
            40, EmptyDict, S.TTS_NEED_RESULTS, EmptyDict)
    ELSE
    LET params == [source |-> "web_search",
                   max_sentences |-> 3,
                   style |-> "concise_voice_output",
                   context_keys |-> <<"result_set">>]
    IN IntentResult(_intent_response("llm_summarize", params), 80, EmptyDict,
                    S.TTS_LLM_SUMMARIZE, [llm_context |-> "result_set"])

\* r"поясни\s+(.+)", r"що таке\s+(.+)", r"розкажи\s+про\s+(.+)"
patterns ==
    <<<<Lit(S.W_poiasny), SpacePlus, DotPlusG>>,
      <<Lit(S.P_shcho_take), SpacePlus, DotPlusG>>,
      <<Lit(S.W_rozkazhy), SpacePlus, Lit(S.W_pro), SpacePlus, DotPlusG>>>>

RECURSIVE LlmQueryFrom(_, _)
LlmQueryFrom(transcript, i) ==
    IF i > Len(patterns) THEN NoResult
    ELSE
    LET m == Search(patterns[i], transcript) IN
    IF ~m.ok THEN LlmQueryFrom(transcript, i + 1)
    ELSE
    LET topic == strip(m.groups[1])
    IN IntentResult(
            _intent_response("llm_query", [prompt |-> S.PROMPT_PREFIX \o topic]),
            75, [topic |-> topic], S.TTS_LLM_QUERY, [topic |-> topic])

_handle_llm_query(transcript, p, kwargs) == LlmQueryFrom(transcript, 1)

\* r"видали файл\s+(.+)"
DeleteFileRe == <<Lit(S.P_vydaly_fail), SpacePlus, DotPlusG>>

\* _handle_critical(transcript): (intent, phrase, params) or None.
NoCritical == [none |-> TRUE]

\* A precheck that looks for restart before shutdown.
CriticalRestartFirst(transcript) ==
    IF Contains(transcript, S.P_perezavantazh)
    THEN [intent |-> "restart", phrase |-> S.PHRASE_RESTART,
          params |-> [operation |-> "restart"]]
    ELSE IF Contains(transcript, S.P_vymkny_kompiuter)
    THEN [intent |-> "shutdown", phrase |-> S.PHRASE_SHUTDOWN,
          params |-> [operation |-> "shutdown"]]
    ELSE
    LET m == Search(DeleteFileRe, transcript) IN
    IF Contains(transcript, S.P_vydaly_fail) /\ m.ok
    THEN LET filename == strip(m.groups[1])
         IN [intent |-> "delete_file",
             phrase |-> S.PHRASE_DELETE \o filename \o S.QUESTION,
             params |-> [file |-> filename]]
    ELSE NoCritical

\* A precheck that takes the delete-file phrase without a file name as well.
CriticalWithoutFileName(transcript) ==
    IF Contains(transcript, S.P_vymkny_kompiuter)
    THEN [intent |-> "shutdown", phrase |-> S.PHRASE_SHUTDOWN,
          params |-> [operation |-> "shutdown"]]
    ELSE IF Contains(transcript, S.P_perezavantazh)
    THEN [intent |-> "restart", phrase |-> S.PHRASE_RESTART,
          params |-> [operation |-> "restart"]]
    ELSE
    LET m == Search(DeleteFileRe, transcript) IN
    IF Contains(transcript, S.P_vydaly_fail)
    THEN LET filename == IF m.ok THEN strip(m.groups[1]) ELSE <<>>
         IN [intent |-> "delete_file",
             phrase |-> S.PHRASE_DELETE \o filename \o S.QUESTION,
             params |-> [file |-> filename]]
    ELSE NoCritical

_handle_critical(transcript) ==
    IF Contains(transcript, S.P_vymkny_kompiuter)
    THEN [intent |-> "shutdown", phrase |-> S.PHRASE_SHUTDOWN,
          params |-> [operation |-> "shutdown"]]
    ELSE IF Contains(transcript, S.P_perezavantazh)
    THEN [intent |-> "restart", phrase |-> S.PHRASE_RESTART,
          params |-> [operation |-> "restart"]]
    ELSE
    LET m == Search(DeleteFileRe, transcript) IN
    IF Contains(transcript, S.P_vydaly_fail) /\ m.ok
    THEN LET filename == strip(m.groups[1])
         IN [intent |-> "delete_file",
             phrase |-> S.PHRASE_DELETE \o filename \o S.QUESTION,
             params |-> [file |-> filename]]
    ELSE NoCritical

_handle_critical_wrapper(transcript) ==
    LET critical == _handle_critical(transcript) IN
    IF critical = NoCritical THEN NoResult
    ELSE IntentResult(
            _make_confirmation(_intent_response("none", critical.params),
                               critical.phrase),
            80, critical.params, S.TTS_CONFIRM,
            [critical_intent |-> critical.intent])

\* No precheck at all.
NoPrechecks == <<>>

\* INTENT_PRECHECKS and _run_intents(transcript, payload): the first precheck
\* that returns a result.
INTENT_PRECHECKS == <<"critical">>

RECURSIVE RunPrechecksFrom(_, _)
RunPrechecksFrom(transcript, i) ==
    IF i > Len(INTENT_PRECHECKS) THEN NoResult
    ELSE LET r == _handle_critical_wrapper(transcript)
         IN IF r # NoResult THEN r ELSE RunPrechecksFrom(transcript, i + 1)

_run_intents(transcript, p) == RunPrechecksFrom(transcript, 1)

-----------------------------------------------------------------------------
(* process_request                                                         *)

\* The handlers with hotkey tried before run_app and focus_window.
HandlersHotkeyFirst ==
    <<"hotkey", "run_app", "focus_window", "audio_control", "system_toggle",
      "open_folder", "file_search", "file_list", "mkdir_here", "open_recent",
      "text_input", "web_search", "speak_results", "run_macro", "llm_summarize",
      "llm_query">>

\* intent_handlers: the handlers in the order the loop tries them.
intent_handlers ==
    <<"run_app", "focus_window", "hotkey", "audio_control", "system_toggle",
      "open_folder", "file_search", "file_list", "mkdir_here", "open_recent",
      "text_input", "web_search", "speak_results", "run_macro", "llm_summarize",
      "llm_query">>

\* handler(normalized, payload, apps=..., ...) for the handler listed under intent.
CallHandler(intent, transcript, p, kwargs) ==
    CASE intent = "run_app" -> _handle_run_app(transcript, p, kwargs)
      [] intent = "focus_window" -> _handle_focus_window(transcript, p, kwargs)
      [] intent = "hotkey" -> _handle_hotkey(transcript, p, kwargs)
      [] intent = "audio_control" -> _handle_audio_control(transcript, p, kwargs)
      [] intent = "system_toggle" -> _handle_system_toggle(transcript, p, kwargs)
      [] intent = "open_folder" -> _handle_open_folder(transcript, p, kwargs)
      [] intent = "file_search" -> _handle_file_search(transcript, p, kwargs)
      [] intent = "file_list" -> _handle_file_list(transcript, p, kwargs)
      [] intent = "mkdir_here" -> _handle_mkdir_here(transcript, p, kwargs)
      [] intent = "open_recent" -> _handle_open_recent(transcript, p, kwargs)
      [] intent = "text_input" -> _handle_text_input(transcript, p, kwargs)
      [] intent = "web_search" -> _handle_web_search(transcript, p, kwargs)
      [] intent = "speak_results" -> _handle_speak_results(transcript, p, kwargs)
      [] intent = "run_macro" -> _handle_run_macro(transcript, p, kwargs)
      [] intent = "llm_summarize" -> _handle_llm_summarize(transcript, p, kwargs)
      [] intent = "llm_query" -> _handle_llm_query(transcript, p, kwargs)

\* policies = payload.get("policies", {}) or {}
Policies(p) ==
    LET v == GetField(p, "policies", EmptyDict)
    IN IF v = NullDict THEN EmptyDict ELSE v

\* tts_max = payload.get("policies", {}).get("tts_max_chars") if policies else None
TtsMax(p) ==
    IF Policies(p) # EmptyDict /\ "tts_max_chars" \in DOMAIN Policies(p)
    THEN SomeInt(Policies(p).tts_max_chars)
    ELSE NoInt

\* A state that is taken for "activated" when the request has none.
StateDefaultActivated(p) == GetField(p, "state", "activated")

\* state = payload.get("state", "passive")
State(p) == GetField(p, "state", "passive")

\* A transcript that keeps its surrounding white space.
TranscriptUnstripped(p) ==
    LET v == GetField(p, "transcript", None)
    IN IF Truthy(v) THEN v ELSE <<>>

\* payload.get("transcript") or ""
TranscriptOrEmpty(p) ==
    LET v == GetField(p, "transcript", None)
    IN IF Truthy(v) THEN v ELSE <<>>

\* transcript = (payload.get("transcript") or "").strip()
Transcript(p) == strip(TranscriptOrEmpty(p))

\* normalized = transcript.lower()
Normalized(p) == lower(Transcript(p))

\* llm_summary = payload.get("llm_summary")
LlmSummary(p) == GetField(p, "llm_summary", None)

\* A short circuit that does not look at the transcript.
ShortCircuitsAnyTranscript(p) == Truthy(LlmSummary(p))

\* Line 164: if llm_summary and not transcript
ShortCircuits(p) == Truthy(LlmSummary(p)) /\ Transcript(p) = <<>>

\* payload.get(key, []) or []
ListOf(p, key) ==
    LET v == GetField(p, key, <<>>)
    IN IF v = NullList THEN <<>> ELSE v

\* The keyword arguments every handler is called with.
Kwargs(p) ==
    [apps |-> ListOf(p, "apps"),
     windows |-> ListOf(p, "windows"),
     folders |-> ListOf(p, "folders"),
     macros |-> ListOf(p, "macros"),
     aliases |-> ListOf(p, "aliases"),
     result_set |-> ListOf(p, "result_set")]

\* dict.update: the keys of other replace those of d.
Update(d, other) ==
    [k \in DOMAIN d \cup DOMAIN other |-> IF k \in DOMAIN other THEN other[k] ELSE d[k]]

\* The exceptions of Python that the body can run into.  A method of None:
\* None.strip() at line 151 is an AttributeError.
StripRaises(v) == v = None

\* Iterating None: the handlers that look a name up loop over their lists
\* once their pattern has matched, and `for entry in None` is a TypeError.
\* int() of more digits than it converts, at lines 371 and 443, is a
\* ValueError.
HandlerRaises(intent, transcript, kwargs) ==
    CASE intent = "run_app" ->
            /\ Search(RunAppRe, transcript).ok
            /\ (kwargs.aliases = NullList \/ kwargs.apps = NullList)
      [] intent = "focus_window" ->
            Search(FocusWindowRe, transcript).ok /\ kwargs.windows = NullList
      [] intent = "open_folder" ->
            Search(OpenFolderRe, transcript).ok /\ kwargs.folders = NullList
      [] intent = "run_macro" ->
            Search(RunMacroRe, transcript).ok /\ kwargs.macros = NullList
      [] intent = "audio_control" ->
            /\ ~Contains(transcript, S.P_vymkny_zvuk)
            /\ ~Contains(transcript, S.P_bez_zvuku)
            /\ Search(VolumeRe, transcript).ok
            /\ IntRaises(Search(VolumeRe, transcript).groups[2])
      [] intent = "file_list" ->
            /\ ~Contains(transcript, S.P_files_today)
            /\ ~Contains(transcript, S.P_files_yesterday)
            /\ Search(FileListRe, transcript).ok
            /\ IntRaises(Search(FileListRe, transcript).groups[1])
      [] OTHER -> FALSE

\* policies.get(...) at line 115 with policies None is an AttributeError.
GateRaises(action, policies) == action \in DOMAIN mapping /\ policies = NullDict

\* What reading the fields with setdefault would leave in the request: every
\* absent field at its default.
ReadBySetDefault(p) ==
    [f \in DOMAIN p \cup {"policies", "state", "transcript", "locale", "result_set",
                          "llm_summary"} |->
        IF f \in DOMAIN p THEN p[f]
        ELSE CASE f = "policies" -> EmptyDict
               [] f = "state" -> "passive"
               [] f = "locale" -> "uk-UA"
               [] f = "llm_summary" -> None
               [] OTHER -> <<>>]

\* Lines 147-154: what reading the fields leaves in the request.  dict.get
\* returns the default for an absent key and does not store it.
AfterGet(p) == p

\* Lines 156-162: the response when state is not "activated".
IdleResponse(r, p) ==
    [r EXCEPT !.tts.say = _apply_tts_limit(S.MSG_IDLE, TtsMax(p)),
              !.log.intent_detected = "idle",
              !.log.confidence = 100]

\* Lines 164-171: the response to a precomputed summary.
SummaryResponse(r, p) ==
    [r EXCEPT !.action = "speak_results",
              !.params = [source |-> "llm_summary"],
              !.tts.say = _apply_tts_limit(LlmSummary(p), TtsMax(p)),
              !.log.intent_detected = "speak_results",
              !.log.confidence = 100,
              !.log.resolution = [source |-> "llm_summary"]]

\* Lines 177-184: the response when the precheck returned pre.
CriticalResponse(r, p, pre) ==
    [Update(r, pre.response) EXCEPT
        !.log.intent_detected = "critical",
        !.log.confidence = pre.confidence,
        !.log.slots = pre.slots,
        !.log.resolution = IF pre.resolution # EmptyDict THEN pre.resolution ELSE @,
        !.tts.say = _apply_tts_limit(pre.tts, TtsMax(p))]

\* Lines 187-190: the response to an empty transcript.
MissingTranscriptResponse(r) ==
    [r EXCEPT !.need_more_info = S.NMI_MISSING_TRANSCRIPT,
              !.log.intent_detected = "missing_transcript",
              !.log.confidence = 10]

\* Lines 231-236: the matched handler's result put into the response.
MatchedResponse(r, intent, res) ==
    [Update(r, res.response) EXCEPT
        !.log.intent_detected = intent,
        !.log.confidence = res.confidence,
        !.log.slots = res.slots,
        !.log.resolution = IF res.resolution # EmptyDict THEN res.resolution ELSE @]

\* A policy gate chosen by the detected intent instead of the action.
GatedByIntent(r, p, res) ==
    LET gates == _policy_gate_checks(r.log.intent_detected, Policies(p))
        checked == _set_policy_checks(r, gates)
    IN IF Denied(gates)
       THEN [_deny_for_policy(checked, gates) EXCEPT
                !.tts.say = _apply_tts_limit(S.MSG_POLICY_DENIED, TtsMax(p))]
       ELSE [checked EXCEPT
                !.tts.say = _apply_tts_limit(
                                IF res.tts # <<>> THEN res.tts ELSE checked.tts.say,
                                TtsMax(p))]

\* Lines 238-247: the policy gate on the action of r, and the spoken text.
GatedResponse(r, p, res) ==
    LET gates == _policy_gate_checks(r.action, Policies(p))
        checked == _set_policy_checks(r, gates)
    IN IF Denied(gates)
       THEN [_deny_for_policy(checked, gates) EXCEPT
                !.tts.say = _apply_tts_limit(S.MSG_POLICY_DENIED, TtsMax(p))]
       ELSE [checked EXCEPT
                !.tts.say = _apply_tts_limit(
                                IF res.tts # <<>> THEN res.tts ELSE checked.tts.say,
                                TtsMax(p))]

\* A fallback that records no error.
FallbackWithoutError(r, p) ==
    [r EXCEPT !.tts.say = _apply_tts_limit(S.MSG_UNKNOWN, TtsMax(p)),
              !.log.intent_detected = "unknown",
              !.log.confidence = 20]

\* Lines 250-256: the response when no handler matched.
FallbackResponse(r, p) ==
    [r EXCEPT !.tts.say = _apply_tts_limit(S.MSG_UNKNOWN, TtsMax(p)),
              !.log.intent_detected = "unknown",
              !.log.confidence = 20,
              !.log.errors = Append(@, "intent_not_found")]

\* The for loop of lines 219-248: the index of the first handler from i on
\* that returns a result, 0 when none does.
RECURSIVE FirstMatchFrom(_, _)
FirstMatchFrom(p, i) ==
    IF i > Len(intent_handlers) THEN 0
    ELSE IF CallHandler(intent_handlers[i], Normalized(p), p, Kwargs(p)) # NoResult
    THEN i
    ELSE FirstMatchFrom(p, i + 1)

\* process_request(payload), as one function of the payload.
process_request(p) ==
    IF State(p) # "activated" THEN IdleResponse(_base_response, p)
    ELSE IF ShortCircuits(p)
    THEN SummaryResponse(_base_response, p)
    ELSE IF _run_intents(Normalized(p), p) # NoResult
    THEN CriticalResponse(_base_response, p, _run_intents(Normalized(p), p))
    ELSE IF Transcript(p) = <<>> THEN MissingTranscriptResponse(_base_response)
    ELSE LET i == FirstMatchFrom(p, 1) IN
         IF i = 0 THEN FallbackResponse(_base_response, p)
         ELSE LET res == CallHandler(intent_handlers[i], Normalized(p), p, Kwargs(p))
              IN GatedResponse(MatchedResponse(_base_response, intent_handlers[i], res),
                               p, res)

-----------------------------------------------------------------------------
\* The texts of the requests the model submits; the comment of each gives a
\* transliteration.
Txt == [
    \* "Vidkryi noupad"
    run_alias |-> <<1042, 1110, 1076, 1082, 1088, 1080, 1081, 32, 1085,
        1086, 1091, 1087, 1072, 1076>>,
    \* "zapusty Notepad"
    run_found |-> <<1079, 1072, 1087, 1091, 1089, 1090, 1080, 32, 78, 111,
        116, 101, 112, 97, 100>>,
    \* "zapusty redaktor"
    run_title |-> <<1079, 1072, 1087, 1091, 1089, 1090, 1080, 32, 1088,
        1077, 1076, 1072, 1082, 1090, 1086, 1088>>,
    \* "zapusty kal'kuliator"
    run_missing |-> <<1079, 1072, 1087, 1091, 1089, 1090, 1080, 32, 1082,
        1072, 1083, 1100, 1082, 1091, 1083, 1103, 1090, 1086, 1088>>,
    \* "pereidy na brauzer"
    focus_found |-> <<1087, 1077, 1088, 1077, 1081, 1076, 1080, 32, 1085,
        1072, 32, 1073, 1088, 1072, 1091, 1079, 1077, 1088>>,
    \* "perekliuchys' na poshtu"
    focus_missing |-> <<1087, 1077, 1088, 1077, 1082, 1083, 1102, 1095,
        1080, 1089, 1100, 32, 1085, 1072, 32, 1087, 1086, 1096, 1090, 1091>>,
    \* "zakryi vikno"
    hotkey_close |-> <<1079, 1072, 1082, 1088, 1080, 1081, 32, 1074, 1110,
        1082, 1085, 1086>>,
    \* "pokazhy robochyi stil"
    hotkey_desktop |-> <<1087, 1086, 1082, 1072, 1078, 1080, 32, 1088,
        1086, 1073, 1086, 1095, 1080, 1081, 32, 1089, 1090, 1110, 1083>>,
    \* "natysny ctrl+c"
    hotkey_combo |-> <<1085, 1072, 1090, 1080, 1089, 1085, 1080, 32, 99,
        116, 114, 108, 43, 99>>,
    \* "natysny  ?"
    hotkey_nokeys |-> <<1085, 1072, 1090, 1080, 1089, 1085, 1080, 32, 32,
        63>>,
    \* "vymkny zvuk"
    audio_mute |-> <<1074, 1080, 1084, 1082, 1085, 1080, 32, 1079, 1074,
        1091, 1082>>,
    \* "huchnishe na 20%"
    audio_up |-> <<1075, 1091, 1095, 1085, 1110, 1096, 1077, 32, 1085,
        1072, 32, 50, 48, 37>>,
    \* "tykhishe na 5%"
    audio_down |-> <<1090, 1080, 1093, 1110, 1096, 1077, 32, 1085, 1072,
        32, 53, 37>>,
    \* "uvimkny wi-fi"
    toggle_wifi |-> <<1091, 1074, 1110, 1084, 1082, 1085, 1080, 32, 119,
        105, 45, 102, 105>>,
    \* "vymkny bluetooth"
    toggle_bt_off |-> <<1074, 1080, 1084, 1082, 1085, 1080, 32, 98, 108,
        117, 101, 116, 111, 111, 116, 104>>,
    \* "uvimkny rezhym pol'otu"
    toggle_airplane |-> <<1091, 1074, 1110, 1084, 1082, 1085, 1080, 32,
        1088, 1077, 1078, 1080, 1084, 32, 1087, 1086, 1083, 1100, 1086, 1090,
        1091>>,
    \* "vidkryi papku dokumenty"
    folder_plain |-> <<1074, 1110, 1076, 1082, 1088, 1080, 1081, 32, 1087,
        1072, 1087, 1082, 1091, 32, 1076, 1086, 1082, 1091, 1084, 1077, 1085,
        1090, 1080>>,
    \* "perevidkryi papku dokumenty"
    folder_glued |-> <<1087, 1077, 1088, 1077, 1074, 1110, 1076, 1082,
        1088, 1080, 1081, 32, 1087, 1072, 1087, 1082, 1091, 32, 1076, 1086,
        1082, 1091, 1084, 1077, 1085, 1090, 1080>>,
    \* "perevidkryi papku muzyka"
    folder_glued_missing |-> <<1087, 1077, 1088, 1077, 1074, 1110, 1076,
        1082, 1088, 1080, 1081, 32, 1087, 1072, 1087, 1082, 1091, 32, 1084,
        1091, 1079, 1080, 1082, 1072>>,
    \* "znaidy fail zvit"
    file_search |-> <<1079, 1085, 1072, 1081, 1076, 1080, 32, 1092, 1072,
        1081, 1083, 32, 1079, 1074, 1110, 1090>>,
    \* "pokazhy faily za s'ohodni"
    list_today |-> <<1087, 1086, 1082, 1072, 1078, 1080, 32, 1092, 1072,
        1081, 1083, 1080, 32, 1079, 1072, 32, 1089, 1100, 1086, 1075, 1086,
        1076, 1085, 1110>>,
    \* "pokazhy faily za vchora"
    list_yesterday |-> <<1087, 1086, 1082, 1072, 1078, 1080, 32, 1092,
        1072, 1081, 1083, 1080, 32, 1079, 1072, 32, 1074, 1095, 1086, 1088,
        1072>>,
    \* "pokazhy faily za ostanni 3 dni"
    list_last |-> <<1087, 1086, 1082, 1072, 1078, 1080, 32, 1092, 1072,
        1081, 1083, 1080, 32, 1079, 1072, 32, 1086, 1089, 1090, 1072, 1085,
        1085, 1110, 32, 51, 32, 1076, 1085, 1110>>,
    \* "stvory papku proekt tut"
    mkdir |-> <<1089, 1090, 1074, 1086, 1088, 1080, 32, 1087, 1072, 1087,
        1082, 1091, 32, 1087, 1088, 1086, 1077, 1082, 1090, 32, 1090, 1091,
        1090>>,
    \* "vidkryi ostannii fail"
    recent_plain |-> <<1074, 1110, 1076, 1082, 1088, 1080, 1081, 32, 1086,
        1089, 1090, 1072, 1085, 1085, 1110, 1081, 32, 1092, 1072, 1081, 1083>>,
    \* "perevidkryi ostannii fail"
    recent_glued |-> <<1087, 1077, 1088, 1077, 1074, 1110, 1076, 1082,
        1088, 1080, 1081, 32, 1086, 1089, 1090, 1072, 1085, 1085, 1110, 1081,
        32, 1092, 1072, 1081, 1083>>,
    \* "Vstavyty tekst: pryvit"
    text_colon |-> <<1042, 1089, 1090, 1072, 1074, 1080, 1090, 1080, 32,
        1090, 1077, 1082, 1089, 1090, 58, 32, 1087, 1088, 1080, 1074, 1110,
        1090>>,
    \* "vstavy tekst pryvit"
    text_short |-> <<1074, 1089, 1090, 1072, 1074, 1080, 32, 1090, 1077,
        1082, 1089, 1090, 32, 1087, 1088, 1080, 1074, 1110, 1090>>,
    \* "Poshuk v interneti: test"
    web_internet |-> <<1055, 1086, 1096, 1091, 1082, 32, 1074, 32, 1110,
        1085, 1090, 1077, 1088, 1085, 1077, 1090, 1110, 58, 32, 1090, 1077,
        1089, 1090>>,
    \* "poshuk kotyky"
    web_prefix |-> <<1087, 1086, 1096, 1091, 1082, 32, 1082, 1086, 1090,
        1080, 1082, 1080>>,
    \* "znaidy : pohoda"
    web_colon |-> <<1079, 1085, 1072, 1081, 1076, 1080, 32, 58, 32, 1087,
        1086, 1075, 1086, 1076, 1072>>,
    \* "ozvuch rezul'taty"
    speak |-> <<1086, 1079, 1074, 1091, 1095, 32, 1088, 1077, 1079, 1091,
        1083, 1100, 1090, 1072, 1090, 1080>>,
    \* "uvimkny rezhym robota"
    macro_found |-> <<1091, 1074, 1110, 1084, 1082, 1085, 1080, 32, 1088,
        1077, 1078, 1080, 1084, 32, 1088, 1086, 1073, 1086, 1090, 1072>>,
    \* "uvimknuty rezhym hra"
    macro_missing |-> <<1091, 1074, 1110, 1084, 1082, 1085, 1091, 1090,
        1080, 32, 1088, 1077, 1078, 1080, 1084, 32, 1075, 1088, 1072>>,
    \* "pidsumui"
    summarize |-> <<1087, 1110, 1076, 1089, 1091, 1084, 1091, 1081>>,
    \* "shcho take tla"
    query_what |-> <<1097, 1086, 32, 1090, 1072, 1082, 1077, 32, 116, 108,
        97>>,
    \* "poiasny rekursiiu"
    query_explain |-> <<1087, 1086, 1103, 1089, 1085, 1080, 32, 1088,
        1077, 1082, 1091, 1088, 1089, 1110, 1102>>,
    \* "rozkazhy pro kyiv"
    query_tell |-> <<1088, 1086, 1079, 1082, 1072, 1078, 1080, 32, 1087,
        1088, 1086, 32, 1082, 1080, 1111, 1074>>,
    \* "Vymkny komp'iuter"
    crit_shutdown |-> <<1042, 1080, 1084, 1082, 1085, 1080, 32, 1082,
        1086, 1084, 1087, 39, 1102, 1090, 1077, 1088>>,
    \* "perezavantazh"
    crit_restart |-> <<1087, 1077, 1088, 1077, 1079, 1072, 1074, 1072,
        1085, 1090, 1072, 1078>>,
    \* "vydaly fail zvit.txt"
    crit_delete |-> <<1074, 1080, 1076, 1072, 1083, 1080, 32, 1092, 1072,
        1081, 1083, 32, 1079, 1074, 1110, 1090, 46, 116, 120, 116>>,
    \* "vydaly fail"
    crit_delete_noname |-> <<1074, 1080, 1076, 1072, 1083, 1080, 32, 1092,
        1072, 1081, 1083>>,
    \* "abrakadabra"
    unknown |-> <<1072, 1073, 1088, 1072, 1082, 1072, 1076, 1072, 1073,
        1088, 1072>>,
    \* "  pryvit svit "
    unknown_padded |-> <<32, 32, 1087, 1088, 1080, 1074, 1110, 1090, 32,
        1089, 1074, 1110, 1090, 32>>,
    \* ""
    empty |-> <<>>,
    \* "   "
    blank |-> <<32, 32, 32>>,
    \* "Notepad"
    Notepad |-> <<78, 111, 116, 101, 112, 97, 100>>,
    \* "notepad"
    notepad |-> <<110, 111, 116, 101, 112, 97, 100>>,
    \* "noupad"
    noupad |-> <<1085, 1086, 1091, 1087, 1072, 1076>>,
    \* "Redaktor"
    Redaktor |-> <<1056, 1077, 1076, 1072, 1082, 1090, 1086, 1088>>,
    \* "Brauzer"
    Brauzer |-> <<1041, 1088, 1072, 1091, 1079, 1077, 1088>>,
    \* "Dokumenty"
    Dokumenty |-> <<1044, 1086, 1082, 1091, 1084, 1077, 1085, 1090, 1080>>,
    \* "Robota"
    Robota |-> <<1056, 1086, 1073, 1086, 1090, 1072>>,
    \* "C:/Windows/notepad.exe"
    path_notepad |-> <<67, 58, 47, 87, 105, 110, 100, 111, 119, 115, 47,
        110, 111, 116, 101, 112, 97, 100, 46, 101, 120, 101>>,
    \* "/usr/bin/notepad"
    path_notepad2 |-> <<47, 117, 115, 114, 47, 98, 105, 110, 47, 110, 111,
        116, 101, 112, 97, 100>>,
    \* "C:/editor.exe"
    path_editor |-> <<67, 58, 47, 101, 100, 105, 116, 111, 114, 46, 101,
        120, 101>>,
    \* "C:/Docs"
    path_docs |-> <<67, 58, 47, 68, 111, 99, 115>>,
    \* "app-1"
    id_app1 |-> <<97, 112, 112, 45, 49>>,
    \* "app-2"
    id_app2 |-> <<97, 112, 112, 45, 50>>,
    \* "w1"
    id_win1 |-> <<119, 49>>,
    \* "m1"
    id_macro1 |-> <<109, 49>>,
    \* "Pohoda"
    Pohoda |-> <<1055, 1086, 1075, 1086, 1076, 1072>>,
    \* "Soniachno"
    Soniachno |-> <<1057, 1086, 1085, 1103, 1095, 1085, 1086>>,
    \* "Novyny"
    Novyny |-> <<1053, 1086, 1074, 1080, 1085, 1080>>,
    \* "Hotove reziume"
    summary |-> <<1043, 1086, 1090, 1086, 1074, 1077, 32, 1088, 1077,
        1079, 1102, 1084, 1077>>,
    \* "Hotove reziume   i shche bahato sliv"
    summary_spaced |-> <<1043, 1086, 1090, 1086, 1074, 1077, 32, 1088,
        1077, 1079, 1102, 1084, 1077, 32, 32, 32, 1110, 32, 1097, 1077, 32,
        1073, 1072, 1075, 1072, 1090, 1086, 32, 1089, 1083, 1110, 1074>>,
    \* "vidkryi bloknot"
    run_chain |-> <<1074, 1110, 1076, 1082, 1088, 1080, 1081, 32, 1073,
        1083, 1086, 1082, 1085, 1086, 1090>>,
    \* "Bloknot"
    Bloknot |-> <<1041, 1083, 1086, 1082, 1085, 1086, 1090>>,
    \* "ZAPUSTY NOTEPAD"
    run_upper |-> <<1047, 1040, 1055, 1059, 1057, 1058, 1048, 32, 78, 79,
        84, 69, 80, 65, 68>>,
    \* "prochytai rezul'taty"
    speak_read |-> <<1087, 1088, 1086, 1095, 1080, 1090, 1072, 1081, 32,
        1088, 1077, 1079, 1091, 1083, 1100, 1090, 1072, 1090, 1080>>,
    \* "uzahal'ny"
    summarize_alt |-> <<1091, 1079, 1072, 1075, 1072, 1083, 1100, 1085,
        1080>>,
    \* "Note"
    Note |-> <<78, 111, 116, 101>>,
    \* "NOTEPAD"
    NOTEPAD |-> <<78, 79, 84, 69, 80, 65, 68>>,
    \* "Notepad++"
    NotepadPP |-> <<78, 111, 116, 101, 112, 97, 100, 43, 43>>,
    \* "vydaly failyk"
    delete_glued |-> <<1074, 1080, 1076, 1072, 1083, 1080, 32, 1092, 1072,
        1081, 1083, 1080, 1082>>,
    \* "Poshuk v interneti: pohoda Kyiv"
    web_weather |-> <<1055, 1086, 1096, 1091, 1082, 32, 1074, 32, 1110,
        1085, 1090, 1077, 1088, 1085, 1077, 1090, 1110, 58, 32, 1087, 1086,
        1075, 1086, 1076, 1072, 32, 1050, 1080, 1111, 1074>>,
    \* "huchnishe na ?%"
    audio_arabic |-> <<1075, 1091, 1095, 1085, 1110, 1096, 1077, 32, 1085,
        1072, 32, 1635, 37>>,
    \* "pokazhy faily za ostanni ??????????? dni"
    list_wide |-> <<1087, 1086, 1082, 1072, 1078, 1080, 32, 1092, 1072,
        1081, 1083, 1080, 32, 1079, 1072, 32, 1086, 1089, 1090, 1072, 1085,
        1085, 1110, 32, 65296, 65298, 65297, 65300, 65303, 65300, 65304,
        65299, 65302, 65300, 65304, 32, 1076, 1085, 1110>>,
    \* "?zapusty Notepad"
    run_accent |-> <<233, 1079, 1072, 1087, 1091, 1089, 1090, 1080, 32,
        78, 111, 116, 101, 112, 97, 100>>,
    \* "vstavy tekst ?"
    text_dotted |-> <<1074, 1089, 1090, 1072, 1074, 1080, 32, 1090, 1077,
        1082, 1089, 1090, 32, 304>>,
    \* "vstavy tekst ????"
    text_sigma |-> <<1074, 1089, 1090, 1072, 1074, 1080, 32, 1090, 1077,
        1082, 1089, 1090, 32, 927, 916, 927, 931>>,
    \* "vstavy tekst " and the lone surrogate U+D800
    text_surrogate |-> <<1074, 1089, 1090, 1072, 1074, 1080, 32, 1090,
        1077, 1082, 1089, 1090, 32, 55296>>,
    \* "vstavy tekst "a\b""
    text_escape |-> <<1074, 1089, 1090, 1072, 1074, 1080, 32, 1090, 1077,
        1082, 1089, 1090, 32, 34, 97, 92, 98, 34>>,
    \* " "
    space |-> <<32>>
]

-----------------------------------------------------------------------------
(* Requests                                                                *)

\* d with key set to v, and d without key.
With(d, key, v) == [k \in DOMAIN d \cup {key} |-> IF k = key THEN v ELSE d[k]]
Without(d, key) == [k \in DOMAIN d \ {key} |-> d[k]]

\* The boolean policy flags of the requests.
PolicyFlags ==
    {"allow_run_apps", "allow_hotkeys", "allow_audio", "allow_system_toggle",
     "allow_file_ops", "allow_network_search", "allow_llm_query",
     "allow_llm_summarize", "dictation"}

AllTrue == [f \in PolicyFlags |-> TRUE]
AllFalse == [f \in PolicyFlags |-> FALSE]

\* All flags granted; all refused; none present; one refused; one absent; one
\* granted alone.
PolicyConfigs ==
    {AllTrue, AllFalse, EmptyDict}
    \cup {With(AllTrue, f, FALSE) : f \in PolicyFlags}
    \cup {Without(AllTrue, f) : f \in PolicyFlags}
    \cup {With(AllFalse, f, TRUE) : f \in PolicyFlags}

\* The context of a desktop session.
FullContext ==
    [apps |-> <<[name |-> Txt.Notepad, path |-> Txt.path_notepad, id |-> Txt.id_app1],
                [title |-> Txt.Redaktor, path |-> Txt.path_editor],
                [name |-> Txt.notepad, path |-> Txt.path_notepad2, id |-> Txt.id_app2]>>,
     windows |-> <<[title |-> Txt.Brauzer, id |-> Txt.id_win1]>>,
     folders |-> <<[name |-> Txt.Dokumenty, path |-> Txt.path_docs]>>,
     macros |-> <<[label |-> Txt.Robota, id |-> Txt.id_macro1]>>,
     aliases |-> <<[name |-> Txt.noupad, maps_to |-> Txt.Notepad]>>,
     result_set |-> <<[title |-> Txt.Pohoda, snippet |-> Txt.Soniachno],
                      [name |-> Txt.Novyny]>>]

\* A context with several aliases: an alias of an alias, an alias without a
\* target, and two aliases of one name.
AliasContext ==
    With(FullContext, "aliases",
         <<[name |-> Txt.Bloknot, maps_to |-> Txt.noupad],
           [name |-> Txt.noupad],
           [name |-> Txt.noupad, maps_to |-> Txt.Notepad],
           [name |-> Txt.noupad, maps_to |-> Txt.Redaktor]>>)

\* The same with every list empty, and with every list null.
EmptyContext == [k \in DOMAIN FullContext |-> <<>>]
NullContext == [k \in DOMAIN FullContext |-> NullList]

\* A request of an activated session with transcript t, policies pol and the
\* lists of ctx.
Request(t, pol, ctx) ==
    Update([state |-> "activated", locale |-> "uk-UA", transcript |-> t,
            policies |-> pol], ctx)

\* One command each: every branch of every handler and of the precheck, commands
\* that name an entity the context lacks, and text that is no command.
Commands ==
    {Txt.run_alias, Txt.run_found, Txt.run_title, Txt.run_missing, Txt.focus_found,
     Txt.focus_missing, Txt.hotkey_close, Txt.hotkey_desktop, Txt.hotkey_combo,
     Txt.hotkey_nokeys, Txt.audio_mute, Txt.audio_up, Txt.audio_down, Txt.toggle_wifi,
     Txt.toggle_bt_off, Txt.toggle_airplane, Txt.folder_plain, Txt.folder_glued,
     Txt.folder_glued_missing, Txt.file_search, Txt.list_today, Txt.list_yesterday,
     Txt.list_last, Txt.mkdir, Txt.recent_plain, Txt.recent_glued, Txt.text_colon,
     Txt.text_short, Txt.web_internet, Txt.web_prefix, Txt.web_colon, Txt.speak,
     Txt.macro_found, Txt.macro_missing, Txt.summarize, Txt.query_what,
     Txt.query_explain, Txt.query_tell, Txt.crit_shutdown, Txt.crit_restart,
     Txt.crit_delete, Txt.crit_delete_noname, Txt.unknown, Txt.unknown_padded}

\* Transcripts with nothing to say.
Silences == {Txt.empty, Txt.blank, None}

\* One command of each handler and of each critical pattern: two of them, one
\* after the other, make a transcript that several handlers recognise.
Phrases ==
    {Txt.run_found, Txt.focus_found, Txt.hotkey_close, Txt.audio_mute, Txt.toggle_wifi,
     Txt.folder_glued, Txt.file_search, Txt.list_today, Txt.mkdir, Txt.recent_glued,
     Txt.text_short, Txt.web_internet, Txt.speak, Txt.macro_found, Txt.summarize,
     Txt.query_what, Txt.crit_shutdown, Txt.crit_restart, Txt.crit_delete}

TwoCommands == {a \o Txt.space \o b : a, b \in Phrases}

\* Speech limits of the requests: none, and some too short for the messages.
TtsLimits == {0, 1, 12, 120}

\* Every command under every policy configuration.
PolicyRequests ==
    {Request(t, pol, FullContext) : t \in Commands \cup Silences, pol \in PolicyConfigs}
    \cup {Without(Request(t, EmptyDict, FullContext), "policies") : t \in Commands}
    \cup {Request(t, NullDict, FullContext) : t \in Commands}

\* Two commands in one transcript.
OrderRequests ==
    {Request(t, pol, FullContext) : t \in TwoCommands, pol \in {AllTrue, EmptyDict}}

\* Every command with a speech limit.
LimitRequests ==
    {Request(t, With(AllTrue, "tts_max_chars", n), FullContext) :
        t \in Commands \cup Silences, n \in TtsLimits}
    \cup {Request(t, [tts_max_chars |-> n], FullContext) :
        t \in Commands, n \in TtsLimits}

\* Every command without a context.
ContextRequests ==
    {Request(t, pol, ctx) : t \in Commands, pol \in {AllTrue, EmptyDict},
                            ctx \in {EmptyContext, NullContext}}
    \cup {Request(t, pol, EmptyDict) : t \in Commands, pol \in {AllTrue, EmptyDict}}

\* Launch commands with several aliases.
AliasRequests ==
    {Request(t, pol, AliasContext) :
        t \in {Txt.run_alias, Txt.run_chain, Txt.run_found, Txt.run_upper,
               Txt.run_title, Txt.run_missing},
        pol \in {AllTrue, AllFalse, EmptyDict}}

\* The fields of a request that process_request reads, and null in each.
InputFields ==
    {"state", "transcript", "locale", "policies", "apps", "windows", "folders",
     "macros", "aliases", "result_set", "llm_summary"}
NullOf(f) ==
    CASE f \in {"state", "locale"} -> Null
      [] f \in {"transcript", "llm_summary"} -> None
      [] f = "policies" -> NullDict
      [] OTHER -> NullList

\* Requests with one field absent or null, with every field but the state and
\* the transcript absent or null, and with no field or only nulls.
SparseRequests ==
    LET texts == {Txt.run_alias, Txt.focus_found, Txt.folder_glued, Txt.text_short,
                  Txt.speak, Txt.macro_found, Txt.summarize}
        full == {With(Request(t, AllTrue, FullContext), "llm_summary", s) :
                    t \in texts, s \in {Txt.empty}}
        others == InputFields \ {"state", "transcript"}
    IN {Without(p, f) : p \in full, f \in InputFields}
       \cup {With(p, f, NullOf(f)) : p \in full, f \in InputFields}
       \cup {[f \in {"state", "transcript"} |-> p[f]] : p \in full}
       \cup {[f \in InputFields |-> IF f \in others THEN NullOf(f) ELSE p[f]] : p \in full}
       \cup {EmptyDict, [f \in InputFields |-> NullOf(f)]}

\* Requests that carry a precomputed summary.
SummaryRequests ==
    {With(Request(t, pol, FullContext), "llm_summary", s) :
        t \in Commands \cup Silences,
        pol \in {AllTrue, EmptyDict, With(AllTrue, "tts_max_chars", 12)},
        s \in {Txt.summary, Txt.summary_spaced, Txt.empty, None}}
    \cup {Without(With(Request(Txt.empty, AllTrue, FullContext), "llm_summary", s),
                  "transcript") : s \in {Txt.summary, None}}

\* Requests with another search engine.
EngineRequests ==
    {With(Request(t, pol, FullContext), "default_search_engine", e) :
        t \in {Txt.web_internet, Txt.web_prefix, Txt.web_colon},
        pol \in {AllTrue, EmptyDict}, e \in {"google", "bing", Null}}

\* Requests to read or to summarise the results, with results, with none, with
\* null and without the field, alone or next to another command.
ResultRequests ==
    {Request(t, pol, ctx) :
        t \in {Txt.speak, Txt.speak_read, Txt.summarize, Txt.summarize_alt,
               Txt.hotkey_close \o Txt.space \o Txt.speak,
               Txt.speak \o Txt.space \o Txt.summarize,
               Txt.summarize \o Txt.space \o Txt.crit_restart},
        pol \in {AllTrue, AllFalse},
        ctx \in {FullContext, With(FullContext, "result_set", <<>>),
                 With(FullContext, "result_set", NullList),
                 Without(FullContext, "result_set")}}

\* The delete-file phrase without a file name: alone, after another command
\* and as the start of a longer word.
DeleteRequests ==
    {Request(t, pol, FullContext) :
        t \in {Txt.crit_delete_noname, Txt.delete_glued,
               Txt.hotkey_close \o Txt.space \o Txt.crit_delete_noname,
               Txt.text_short \o Txt.space \o Txt.crit_delete_noname,
               Txt.crit_delete_noname \o Txt.space \o Txt.crit_delete_noname},
        pol \in {AllTrue, AllFalse}}

\* The policies of the tests' build_payload: the nine flags granted and
\* tts_max_chars.
TestPolicies == With(AllTrue, "tts_max_chars", 120)

\* build_payload(**overrides) of the tests.
build_payload(overrides) ==
    Update([state |-> "activated",
            locale |-> "uk-UA",
            transcript |-> <<>>,
            policies |-> TestPolicies,
            apps |-> <<>>,
            windows |-> <<>>,
            folders |-> <<>>,
            macros |-> <<>>,
            aliases |-> <<>>,
            result_set |-> <<>>],
           overrides)

\* The requests of the six tests.
TestRequests ==
    {build_payload([transcript |-> Txt.run_alias,
                    apps |-> <<[name |-> Txt.Notepad, path |-> Txt.path_notepad]>>,
                    aliases |-> <<[name |-> Txt.noupad, maps_to |-> Txt.Notepad]>>]),
     build_payload([transcript |-> Txt.text_colon,
                    policies |-> With(TestPolicies, "dictation", FALSE)]),
     build_payload([transcript |-> Txt.web_internet]),
     build_payload([transcript |-> <<>>, llm_summary |-> Txt.summary]),
     build_payload([transcript |-> Txt.crit_shutdown]),
     build_payload([transcript |-> Txt.web_weather])}

\* Commands in characters beyond Latin and Cyrillic: a decimal digit of
\* another script, a number beyond 32 bits in full-width digits, a letter
\* before the verb, a capital whose lowercase is two characters, a final
\* capital sigma, and a surrogate that no encoding of the output holds.
UnicodeRequests ==
    {Request(t, AllTrue, FullContext) :
        t \in {Txt.audio_arabic, Txt.list_wide, Txt.run_accent, Txt.text_dotted,
               Txt.text_sigma, Txt.text_surrogate}}

\* A number of n digits 9.
Nines(n) == [i \in 1..n |-> 57]

\* "huchnishe na 9...9%" and "pokazhy faily za ostanni 9...9 dni" with a
\* number of n digits.
VolumeBy(n) == S.W_huchnishe \o <<32>> \o S.W_na \o <<32>> \o Nines(n) \o S.PERCENT
FilesOfLast(n) == S.P_files_last \o <<32>> \o Nines(n) \o <<32>> \o S.W_dni

\* Commands that carry a number of as many digits as int() reads and of one
\* digit more, in requests that supply nothing but the state and the
\* transcript and in requests with every field.
LongRequests ==
    LET texts == {VolumeBy(IntMaxStrDigits), VolumeBy(IntMaxStrDigits + 1),
                  FilesOfLast(IntMaxStrDigits), FilesOfLast(IntMaxStrDigits + 1)}
    IN {[state |-> "activated", transcript |-> t] : t \in texts}
       \cup {Request(t, AllTrue, FullContext) : t \in texts}

Activated == PolicyRequests \cup OrderRequests \cup LimitRequests
             \cup ContextRequests \cup SummaryRequests \cup EngineRequests
             \cup AliasRequests \cup SparseRequests \cup ResultRequests
             \cup DeleteRequests \cup TestRequests \cup UnicodeRequests
             \cup LongRequests

\* The same requests from a session that is not activated.
NotActivated ==
    {With(p, "state", s) : p \in LimitRequests \cup SummaryRequests,
                           s \in {"passive", "Activated", Null}}
    \cup {Without(p, "state") : p \in LimitRequests \cup SummaryRequests}

Payloads == Activated \cup NotActivated

-----------------------------------------------------------------------------
(* process_request as a state machine: one action for each step of its     *)
(* body                                                                    *)

\* The speech formatter is not running.
Pending == None

\* The command line is not running.
NoCli == [none |-> TRUE]

\* No entity is being looked up.
NoLookup == [none |-> TRUE]

Init ==
    /\ payload \in Payloads
    /\ response = _base_response
    /\ pc = "state"
    /\ idx = 1
    /\ result = NoResult
    /\ consulted = <<>>
    /\ prechecked = FALSE
    /\ gated = 0
    /\ tts_text = <<>>
    /\ tts_limit = NoInt
    /\ tts_out = Pending
    /\ request = payload
    /\ calls = <<>>
    /\ heap = <<>>
    /\ cli = NoCli
    /\ lookup = NoLookup

\* What the body of process_request does not write.
other_vars == <<tts_text, tts_limit, tts_out, request, calls, heap, cli, lookup>>
call_vars == <<payload, other_vars>>

\* Lines 145-162.
CheckState ==
    /\ pc = "state"
    /\ IF StripRaises(TranscriptOrEmpty(payload))
       THEN /\ pc' = "raised"
            /\ UNCHANGED response
       ELSE IF State(payload) # "activated"
       THEN /\ response' = IdleResponse(response, payload)
            /\ pc' = "done"
       ELSE /\ pc' = "summary"
            /\ UNCHANGED response
    /\ payload' = AfterGet(payload)
    /\ UNCHANGED <<idx, result, consulted, prechecked, gated, other_vars>>

\* Lines 164-171.
CheckSummary ==
    /\ pc = "summary"
    /\ IF ShortCircuits(payload)
       THEN /\ response' = SummaryResponse(response, payload)
            /\ pc' = "done"
       ELSE /\ pc' = "precheck"
            /\ UNCHANGED response
    /\ UNCHANGED <<idx, result, consulted, prechecked, gated, call_vars>>

\* Lines 173-184.
Precheck ==
    /\ pc = "precheck"
    /\ prechecked' = TRUE
    /\ \E pre \in {_run_intents(Normalized(payload), payload)} :
          IF pre # NoResult
          THEN /\ response' = CriticalResponse(response, payload, pre)
               /\ pc' = "done"
          ELSE /\ pc' = "transcript"
               /\ UNCHANGED response
    /\ UNCHANGED <<idx, result, consulted, gated, call_vars>>

\* Lines 186-190.
CheckTranscript ==
    /\ pc = "transcript"
    /\ IF Transcript(payload) = <<>>
       THEN /\ response' = MissingTranscriptResponse(response)
            /\ pc' = "done"
       ELSE /\ pc' = "handlers"
            /\ UNCHANGED response
    /\ UNCHANGED <<idx, result, consulted, prechecked, gated, call_vars>>

\* Lines 219-230: one turn of the loop, the call of handler idx.
TryHandler ==
    /\ pc = "handlers"
    /\ idx <= Len(intent_handlers)
    /\ consulted' = Append(consulted, intent_handlers[idx])
    /\ IF HandlerRaises(intent_handlers[idx], Normalized(payload), Kwargs(payload))
       THEN /\ pc' = "raised"
            /\ UNCHANGED <<idx, result>>
       ELSE \E res \in {CallHandler(intent_handlers[idx], Normalized(payload),
                                    payload, Kwargs(payload))} :
               IF res # NoResult
               THEN /\ result' = res
                    /\ pc' = "gate"
                    /\ UNCHANGED idx
               ELSE /\ idx' = idx + 1
                    /\ UNCHANGED <<result, pc>>
    /\ UNCHANGED <<response, prechecked, gated, call_vars>>

\* Lines 231-248: the result of the handler, the policy gate, the return.
\* response.update at line 231 puts the dicts log and tts of result.response
\* themselves into the response, so what lines 232-247 write into them is
\* written into result.response as well; action and params are rebound in
\* the response alone.  The exception of line 238 comes after lines 231-236.
PolicyGate ==
    /\ pc = "gate"
    /\ gated' = gated + 1
    /\ LET matched == MatchedResponse(response, intent_handlers[idx], result)
       IN IF GateRaises(result.response.action, Policies(payload))
          THEN /\ pc' = "raised"
               /\ response' = matched
          ELSE /\ pc' = "done"
               /\ response' = GatedResponse(matched, payload, result)
    /\ result' = [result EXCEPT !.response.log = response'.log,
                                !.response.tts = response'.tts]
    /\ UNCHANGED <<idx, consulted, prechecked, call_vars>>

\* Lines 250-256: the loop ended without a result.
Fallback ==
    /\ pc = "handlers"
    /\ idx > Len(intent_handlers)
    /\ response' = FallbackResponse(response, payload)
    /\ pc' = "done"
    /\ UNCHANGED <<idx, result, consulted, prechecked, gated, call_vars>>

Next ==
    \/ CheckState
    \/ CheckSummary
    \/ Precheck
    \/ CheckTranscript
    \/ TryHandler
    \/ PolicyGate
    \/ Fallback

Spec == Init /\ [][Next]_vars

-----------------------------------------------------------------------------
(* The TTS formatter on its own: _apply_tts_limit on every short text      *)

\* The longest text and the largest limit handed to the formatter.
MaxTextLen == 3
MaxLimit == 4

\* A letter, a space, a tab and the ellipsis.
TtsAlphabet == {97, 32, 9, 8230}

TtsTexts == UNION {[1..n -> TtsAlphabet] : n \in 0..MaxTextLen}

\* No limit, and the integers from -2 to MaxLimit.
TtsLimitValues == {NoInt} \cup {SomeInt(n) : n \in -2..MaxLimit}

InitTts ==
    /\ payload = EmptyDict
    /\ response = _base_response
    /\ pc = "tts"
    /\ idx = 1
    /\ result = NoResult
    /\ consulted = <<>>
    /\ prechecked = FALSE
    /\ gated = 0
    /\ tts_text \in TtsTexts
    /\ tts_limit \in TtsLimitValues
    /\ tts_out = Pending
    /\ request = payload
    /\ calls = <<>>
    /\ heap = <<>>
    /\ cli = NoCli
    /\ lookup = NoLookup

\* _apply_tts_limit(text, max_chars)
ApplyTtsLimit ==
    /\ pc = "tts"
    /\ tts_out' = _apply_tts_limit(tts_text, tts_limit)
    /\ pc' = "tts_done"
    /\ UNCHANGED <<payload, response, idx, result, consulted, prechecked, gated,
                   tts_text, tts_limit, request, calls, heap, cli, lookup>>

NextTts == ApplyTtsLimit

SpecTts == InitTts /\ [][NextTts]_vars

-----------------------------------------------------------------------------
(* Entity lookup: _resolve_dict                                            *)

\* The most entries of a list that is looked through.
MaxEntries == 2

\* Entries that carry the names under different keys and in different case, a
\* shorter and a longer name, a null name, an empty name and no name at all.
LookupEntries ==
    {[name |-> Txt.Notepad, id |-> Txt.id_app1],
     [name |-> Txt.notepad, id |-> Txt.id_app2],
     [title |-> Txt.NOTEPAD],
     [name |-> Txt.Note, label |-> Txt.NotepadPP],
     [name |-> None, title |-> Txt.Redaktor],
     [name |-> Txt.empty, label |-> Txt.Notepad],
     [id |-> Txt.id_app1],
     [name |-> Txt.NotepadPP]}

\* The names that are spoken or that an alias maps to: never empty.
LookupNames == {Txt.Notepad, Txt.NOTEPAD, Txt.Note, Txt.NotepadPP, Txt.Redaktor}

\* The lists of at most n entries.
ListsUpTo(n) == UNION {[1..k -> LookupEntries] : k \in 0..n}

InitLookup ==
    /\ payload = EmptyDict
    /\ response = _base_response
    /\ pc = "lookup"
    /\ idx = 1
    /\ result = NoResult
    /\ consulted = <<>>
    /\ prechecked = FALSE
    /\ gated = 0
    /\ tts_text = <<>>
    /\ tts_limit = NoInt
    /\ tts_out = Pending
    /\ request = payload
    /\ calls = <<>>
    /\ heap = <<>>
    /\ cli = NoCli
    /\ \E entries \in ListsUpTo(MaxEntries), name \in LookupNames :
          lookup = [entries |-> entries, name |-> name, found |-> [pending |-> TRUE]]

\* _resolve_dict(entries, name)
Resolve ==
    /\ pc = "lookup"
    /\ lookup' = [lookup EXCEPT !.found = _resolve_dict(lookup.entries, lookup.name)]
    /\ pc' = "lookup_done"
    /\ UNCHANGED <<payload, response, idx, result, consulted, prechecked, gated,
                   tts_text, tts_limit, tts_out, request, calls, heap, cli>>

SpecLookup == InitLookup /\ [][Resolve]_vars

-----------------------------------------------------------------------------
(* Several callers: calls of process_request, one after the other and      *)
(* interleaved                                                             *)

\* The callers, and the number of calls they make in all.
Callers == {"a", "b"}
MaxCalls == 3

\* The requests they send: one that no handler recognises, one that the policy
\* gate refuses and one that is not activated.
CallPayloads ==
    {Request(Txt.unknown, AllTrue, EmptyDict),
     Request(Txt.text_short, AllFalse, EmptyDict),
     [state |-> "passive", transcript |-> Txt.hotkey_close]}

\* Lines 147-190 on the response object r that line 145 bound: the response,
\* or r as it is when the request goes on to the handlers.
PrecheckedFrom(r, p, pre) ==
    IF pre # NoResult THEN CriticalResponse(r, p, pre)
    ELSE IF Transcript(p) = <<>> THEN MissingTranscriptResponse(r)
    ELSE r

EarlyFrom(r, p) ==
    IF State(p) # "activated" THEN IdleResponse(r, p)
    ELSE IF ShortCircuits(p) THEN SummaryResponse(r, p)
    ELSE PrecheckedFrom(r, p, _run_intents(Normalized(p), p))

\* Whether lines 147-190 return.
ReturnsEarly(p) ==
    \/ State(p) # "activated"
    \/ ShortCircuits(p)
    \/ _run_intents(Normalized(p), p) # NoResult
    \/ Transcript(p) = <<>>

\* Lines 231-256 on r: the response to the result res of handler i, or the
\* fallback when i is 0.
LateFrom(r, p, i, res) ==
    IF i = 0 THEN FallbackResponse(r, p)
    ELSE GatedResponse(MatchedResponse(r, intent_handlers[i], res), p, res)

\* A response object that every call shares: the first one ever made.
SharedTemplate(h) == 1

\* Line 145, response = _base_response(): the function builds its dict anew
\* at every call, so that the object is one that h does not hold yet.
NewResponse(h) == Len(h) + 1

InitCalls ==
    /\ payload = EmptyDict
    /\ response = _base_response
    /\ pc = "calls"
    /\ idx = 1
    /\ result = NoResult
    /\ consulted = <<>>
    /\ prechecked = FALSE
    /\ gated = 0
    /\ tts_text = <<>>
    /\ tts_limit = NoInt
    /\ tts_out = Pending
    /\ request = payload
    /\ cli = NoCli
    /\ lookup = NoLookup
    /\ calls = [c \in Callers |-> [at |-> "out", returned |-> <<>>]]
    /\ heap = <<>>

single_vars == <<payload, response, pc, idx, result, consulted, prechecked, gated,
                 tts_text, tts_limit, tts_out, request, cli, lookup>>

\* The calls that caller c has made.
CallsOf(c) == Len(calls[c].returned) + (IF calls[c].at = "out" THEN 0 ELSE 1)

\* Caller c calls process_request(p): line 145.
Begin(c, p) ==
    /\ calls[c].at = "out"
    /\ CallsOf("a") + CallsOf("b") < MaxCalls
    /\ LET o == NewResponse(heap)
       IN /\ heap' = IF o > Len(heap) THEN Append(heap, _base_response) ELSE heap
          /\ calls' = [calls EXCEPT ![c] =
                          [at |-> "in", payload |-> p, obj |-> o, handler |-> 0,
                           returned |-> calls[c].returned]]
    /\ UNCHANGED single_vars

\* Lines 147-190 of the call of c: the writes to its response object when the
\* call ends before the handlers.
Early(c) ==
    /\ calls[c].at = "in"
    /\ heap' = [heap EXCEPT ![calls[c].obj] = EarlyFrom(@, calls[c].payload)]
    /\ calls' = [calls EXCEPT ![c].at =
                    IF ReturnsEarly(calls[c].payload) THEN "filled" ELSE "matching"]
    /\ UNCHANGED single_vars

\* Lines 193-230 of the call of c: the loop over the handlers.
Match(c) ==
    /\ calls[c].at = "matching"
    /\ LET i == FirstMatchFrom(calls[c].payload, 1)
       IN calls' = [calls EXCEPT ![c].at = "matched", ![c].handler = i]
    /\ UNCHANGED <<heap, single_vars>>

\* Lines 231-256 of the call of c: the writes to its response object.
Late(c) ==
    /\ calls[c].at = "matched"
    /\ LET p == calls[c].payload
           i == calls[c].handler
           res == IF i = 0 THEN NoResult
                  ELSE CallHandler(intent_handlers[i], Normalized(p), p, Kwargs(p))
       IN heap' = [heap EXCEPT ![calls[c].obj] = LateFrom(@, p, i, res)]
    /\ calls' = [calls EXCEPT ![c].at = "filled"]
    /\ UNCHANGED single_vars

\* The return of the call of c: the caller keeps the object.
Return(c) ==
    /\ calls[c].at = "filled"
    /\ calls' = [calls EXCEPT ![c] =
                    [at |-> "out",
                     returned |-> Append(calls[c].returned,
                                         [payload |-> calls[c].payload,
                                          obj |-> calls[c].obj])]]
    /\ UNCHANGED <<heap, single_vars>>

NextCalls ==
    \/ \E c \in Callers, p \in CallPayloads : Begin(c, p)
    \/ \E c \in Callers : Early(c)
    \/ \E c \in Callers : Match(c)
    \/ \E c \in Callers : Late(c)
    \/ \E c \in Callers : Return(c)

SpecCalls == InitCalls /\ [][NextCalls]_vars

-----------------------------------------------------------------------------
(* json.dump(result_dict, sys.stdout, ensure_ascii=False) of line 637: the  *)
(* encoder hands the document to sys.stdout.write piece by piece            *)

\* The characters of the str constants of a response and of its keys.
AtomText == [
    action |-> <<97, 99, 116, 105, 111, 110>>,
    airplane_mode |-> <<97, 105, 114, 112, 108, 97, 110, 101, 95, 109, 111,
        100, 101>>,
    allow_audio |-> <<97, 108, 108, 111, 119, 95, 97, 117, 100, 105, 111>>,
    allow_file_ops |-> <<97, 108, 108, 111, 119, 95, 102, 105, 108, 101, 95,
        111, 112, 115>>,
    allow_hotkeys |-> <<97, 108, 108, 111, 119, 95, 104, 111, 116, 107, 101,
        121, 115>>,
    allow_llm_query |-> <<97, 108, 108, 111, 119, 95, 108, 108, 109, 95,
        113, 117, 101, 114, 121>>,
    allow_llm_summarize |-> <<97, 108, 108, 111, 119, 95, 108, 108, 109, 95,
        115, 117, 109, 109, 97, 114, 105, 122, 101>>,
    allow_network_search |-> <<97, 108, 108, 111, 119, 95, 110, 101, 116,
        119, 111, 114, 107, 95, 115, 101, 97, 114, 99, 104>>,
    allow_run_apps |-> <<97, 108, 108, 111, 119, 95, 114, 117, 110, 95, 97,
        112, 112, 115>>,
    allow_system_toggle |-> <<97, 108, 108, 111, 119, 95, 115, 121, 115,
        116, 101, 109, 95, 116, 111, 103, 103, 108, 101>>,
    amount |-> <<97, 109, 111, 117, 110, 116>>,
    app |-> <<97, 112, 112>>,
    app_id |-> <<97, 112, 112, 95, 105, 100>>,
    audio_control |-> <<97, 117, 100, 105, 111, 95, 99, 111, 110, 116, 114,
        111, 108>>,
    bing |-> <<98, 105, 110, 103>>,
    bluetooth |-> <<98, 108, 117, 101, 116, 111, 111, 116, 104>>,
    concise_voice_output |-> <<99, 111, 110, 99, 105, 115, 101, 95, 118,
        111, 105, 99, 101, 95, 111, 117, 116, 112, 117, 116>>,
    confidence |-> <<99, 111, 110, 102, 105, 100, 101, 110, 99, 101>>,
    confirmation |-> <<99, 111, 110, 102, 105, 114, 109, 97, 116, 105, 111,
        110>>,
    context_keys |-> <<99, 111, 110, 116, 101, 120, 116, 95, 107, 101, 121,
        115>>,
    critical |-> <<99, 114, 105, 116, 105, 99, 97, 108>>,
    critical_intent |-> <<99, 114, 105, 116, 105, 99, 97, 108, 95, 105, 110,
        116, 101, 110, 116>>,
    days |-> <<100, 97, 121, 115>>,
    delete_file |-> <<100, 101, 108, 101, 116, 101, 95, 102, 105, 108, 101>>,
    denied |-> <<100, 101, 110, 105, 101, 100>>,
    denied_policy |-> <<100, 101, 110, 105, 101, 100, 95, 112, 111, 108,
        105, 99, 121>>,
    dictation |-> <<100, 105, 99, 116, 97, 116, 105, 111, 110>>,
    direction |-> <<100, 105, 114, 101, 99, 116, 105, 111, 110>>,
    display |-> <<100, 105, 115, 112, 108, 97, 121>>,
    engine |-> <<101, 110, 103, 105, 110, 101>>,
    errors |-> <<101, 114, 114, 111, 114, 115>>,
    feature |-> <<102, 101, 97, 116, 117, 114, 101>>,
    file |-> <<102, 105, 108, 101>>,
    file_list |-> <<102, 105, 108, 101, 95, 108, 105, 115, 116>>,
    file_search |-> <<102, 105, 108, 101, 95, 115, 101, 97, 114, 99, 104>>,
    focus_window |-> <<102, 111, 99, 117, 115, 95, 119, 105, 110, 100, 111,
        119>>,
    folder |-> <<102, 111, 108, 100, 101, 114>>,
    folder_path |-> <<102, 111, 108, 100, 101, 114, 95, 112, 97, 116, 104>>,
    google |-> <<103, 111, 111, 103, 108, 101>>,
    granted |-> <<103, 114, 97, 110, 116, 101, 100>>,
    hotkey |-> <<104, 111, 116, 107, 101, 121>>,
    id |-> <<105, 100>>,
    idle |-> <<105, 100, 108, 101>>,
    intent_detected |-> <<105, 110, 116, 101, 110, 116, 95, 100, 101, 116,
        101, 99, 116, 101, 100>>,
    intent_not_found |-> <<105, 110, 116, 101, 110, 116, 95, 110, 111, 116,
        95, 102, 111, 117, 110, 100>>,
    items |-> <<105, 116, 101, 109, 115>>,
    keys |-> <<107, 101, 121, 115>>,
    last_n_days |-> <<108, 97, 115, 116, 95, 110, 95, 100, 97, 121, 115>>,
    llm_context |-> <<108, 108, 109, 95, 99, 111, 110, 116, 101, 120, 116>>,
    llm_query |-> <<108, 108, 109, 95, 113, 117, 101, 114, 121>>,
    llm_summarize |-> <<108, 108, 109, 95, 115, 117, 109, 109, 97, 114, 105,
        122, 101>>,
    llm_summary |-> <<108, 108, 109, 95, 115, 117, 109, 109, 97, 114, 121>>,
    log |-> <<108, 111, 103>>,
    macro |-> <<109, 97, 99, 114, 111>>,
    macro_id |-> <<109, 97, 99, 114, 111, 95, 105, 100>>,
    max_sentences |-> <<109, 97, 120, 95, 115, 101, 110, 116, 101, 110, 99,
        101, 115>>,
    missing_transcript |-> <<109, 105, 115, 115, 105, 110, 103, 95, 116,
        114, 97, 110, 115, 99, 114, 105, 112, 116>>,
    mkdir_here |-> <<109, 107, 100, 105, 114, 95, 104, 101, 114, 101>>,
    mute |-> <<109, 117, 116, 101>>,
    name |-> <<110, 97, 109, 101>>,
    need_more_info |-> <<110, 101, 101, 100, 95, 109, 111, 114, 101, 95,
        105, 110, 102, 111>>,
    none |-> <<110, 111, 110, 101>>,
    off |-> <<111, 102, 102>>,
    on |-> <<111, 110>>,
    open_folder |-> <<111, 112, 101, 110, 95, 102, 111, 108, 100, 101, 114>>,
    open_recent |-> <<111, 112, 101, 110, 95, 114, 101, 99, 101, 110, 116>>,
    operation |-> <<111, 112, 101, 114, 97, 116, 105, 111, 110>>,
    params |-> <<112, 97, 114, 97, 109, 115>>,
    path |-> <<112, 97, 116, 104>>,
    phrase |-> <<112, 104, 114, 97, 115, 101>>,
    policy |-> <<112, 111, 108, 105, 99, 121>>,
    policy_checks |-> <<112, 111, 108, 105, 99, 121, 95, 99, 104, 101, 99,
        107, 115>>,
    policy_violation |-> <<112, 111, 108, 105, 99, 121, 95, 118, 105, 111,
        108, 97, 116, 105, 111, 110>>,
    prompt |-> <<112, 114, 111, 109, 112, 116>>,
    query |-> <<113, 117, 101, 114, 121>>,
    required |-> <<114, 101, 113, 117, 105, 114, 101, 100>>,
    resolution |-> <<114, 101, 115, 111, 108, 117, 116, 105, 111, 110>>,
    restart |-> <<114, 101, 115, 116, 97, 114, 116>>,
    result_set |-> <<114, 101, 115, 117, 108, 116, 95, 115, 101, 116>>,
    run_app |-> <<114, 117, 110, 95, 97, 112, 112>>,
    run_macro |-> <<114, 117, 110, 95, 109, 97, 99, 114, 111>>,
    say |-> <<115, 97, 121>>,
    shutdown |-> <<115, 104, 117, 116, 100, 111, 119, 110>>,
    slots |-> <<115, 108, 111, 116, 115>>,
    source |-> <<115, 111, 117, 114, 99, 101>>,
    speak_results |-> <<115, 112, 101, 97, 107, 95, 114, 101, 115, 117, 108,
        116, 115>>,
    spoken |-> <<115, 112, 111, 107, 101, 110>>,
    state |-> <<115, 116, 97, 116, 101>>,
    status |-> <<115, 116, 97, 116, 117, 115>>,
    style |-> <<115, 116, 121, 108, 101>>,
    system_toggle |-> <<115, 121, 115, 116, 101, 109, 95, 116, 111, 103,
        103, 108, 101>>,
    text |-> <<116, 101, 120, 116>>,
    text_input |-> <<116, 101, 120, 116, 95, 105, 110, 112, 117, 116>>,
    time_filter |-> <<116, 105, 109, 101, 95, 102, 105, 108, 116, 101, 114>>,
    today |-> <<116, 111, 100, 97, 121>>,
    topic |-> <<116, 111, 112, 105, 99>>,
    tts |-> <<116, 116, 115>>,
    unknown |-> <<117, 110, 107, 110, 111, 119, 110>>,
    volume_down |-> <<118, 111, 108, 117, 109, 101, 95, 100, 111, 119, 110>>,
    volume_up |-> <<118, 111, 108, 117, 109, 101, 95, 117, 112>>,
    web_search |-> <<119, 101, 98, 95, 115, 101, 97, 114, 99, 104>>,
    wifi |-> <<119, 105, 102, 105>>,
    window |-> <<119, 105, 110, 100, 111, 119>>,
    window_id |-> <<119, 105, 110, 100, 111, 119, 95, 105, 100>>,
    yesterday |-> <<121, 101, 115, 116, 101, 114, 100, 97, 121>>
]

\* The keys that each dict of a response can hold, in the order in which the
\* code inserts them, and the kind of the value of each: "text" a str or
\* None, "atom" a str constant or None, "int" an int made by int(), "nat" an
\* int that is a count, "float" a confidence, "texts" and "atoms" lists of
\* str, "checks" the list of policy checks, or the name of a nested dict.
Schema == [
    \* the response, lines 49-63 and 268-283
    response |-> <<<<"action", "atom">>, <<"params", "params">>,
        <<"confirmation", "confirmation">>, <<"tts", "tts">>, <<"log", "log">>,
        <<"need_more_info", "text">>>>,
    \* params, over all handlers
    params |-> <<<<"app", "text">>, <<"window", "text">>, <<"id", "text">>,
        <<"operation", "atom">>, <<"amount", "int">>, <<"feature", "atom">>,
        <<"state", "atom">>, <<"path", "text">>, <<"macro_id", "text">>,
        <<"name", "text">>, <<"file", "text">>, <<"keys", "texts">>,
        <<"time_filter", "atom">>, <<"days", "int">>, <<"text", "text">>,
        <<"engine", "atom">>, <<"query", "text">>, <<"prompt", "text">>,
        <<"source", "atom">>, <<"max_sentences", "nat">>, <<"style", "atom">>,
        <<"context_keys", "atoms">>>>,
    \* confirmation
    confirmation |-> <<<<"required", "bool">>, <<"phrase", "text">>>>,
    \* tts
    tts |-> <<<<"say", "text">>, <<"display", "text">>>>,
    \* log
    log |-> <<<<"intent_detected", "atom">>, <<"confidence", "float">>,
        <<"slots", "slots">>, <<"policy_checks", "checks">>, <<"resolution",
        "resolution">>, <<"errors", "atoms">>>>,
    \* log.slots, over all handlers
    slots |-> <<<<"amount", "int">>, <<"direction", "text">>, <<"app",
        "text">>, <<"feature", "atom">>, <<"state", "atom">>, <<"file",
        "text">>, <<"folder", "text">>, <<"items", "nat">>, <<"keys", "text">>,
        <<"macro", "text">>, <<"operation", "atom">>, <<"query", "text">>,
        <<"text", "text">>, <<"time_filter", "atom">>, <<"days", "int">>,
        <<"topic", "text">>, <<"window", "text">>>>,
    \* log.resolution, over all handlers
    resolution |-> <<<<"app_id", "text">>, <<"window_id", "text">>,
        <<"folder_path", "text">>, <<"macro_id", "text">>, <<"spoken", "text">>,
        <<"critical_intent", "atom">>, <<"denied_policy", "atom">>,
        <<"llm_context", "atom">>, <<"source", "atom">>, <<"topic", "text">>>>,
    \* an entry of log.policy_checks, line 123
    check |-> <<<<"policy", "atom">>, <<"status", "atom">>>>
]


\* One hexadecimal digit.
Hex(n) == IF n < 10 THEN 48 + n ELSE 87 + n

\* What encode_basestring writes for one character: the quote, the backslash
\* and the control characters are escaped, every other character stands for
\* itself.
EscapeChar(c) ==
    CASE c = 34 -> <<92, 34>>
      [] c = 92 -> <<92, 92>>
      [] c = 10 -> <<92, 110>>
      [] c = 13 -> <<92, 114>>
      [] c = 9 -> <<92, 116>>
      [] c = 12 -> <<92, 102>>
      [] c = 8 -> <<92, 98>>
      [] c < 32 /\ c \notin {8, 9, 10, 12, 13} ->
            <<92, 117, 48, 48, Hex(c \div 16), Hex(c % 16)>>
      [] OTHER -> <<c>>

\* The concatenation of the texts of a list.
RECURSIVE Concat(_)
Concat(ts) == IF ts = <<>> THEN <<>> ELSE Head(ts) \o Concat(Tail(ts))

\* encode_basestring(s): s between quotes.
encode_basestring(s) ==
    <<34>> \o Concat([i \in 1..Len(s) |-> EscapeChar(s[i])]) \o <<34>>

\* The decimal numeral of a natural number.
RECURSIVE Decimal(_)
Decimal(n) == IF n < 10 THEN <<n>> ELSE Decimal(n \div 10) \o <<n % 10>>

\* float.__repr__ of a confidence, kept in hundredths: 85 is 0.85, 90 is 0.9,
\* 100 is 1.0.
floatstr(n) ==
    IntToStr(Decimal(n \div 100)) \o <<46>>
    \o (IF n % 10 = 0
        THEN <<48 + ((n % 100) \div 10)>>
        ELSE <<48 + ((n % 100) \div 10), 48 + (n % 10)>>)

JsonNull == <<110, 117, 108, 108>>
JsonTrue == <<116, 114, 117, 101>>
JsonFalse == <<102, 97, 108, 115, 101>>

\* The piece written for a value that is neither a list nor a dict.
Scalar(kind, v) ==
    CASE kind = "text" -> IF v = None THEN JsonNull ELSE encode_basestring(v)
      [] kind = "atom" -> IF v = Null THEN JsonNull
                          ELSE encode_basestring(AtomText[v])
      [] kind = "bool" -> IF v THEN JsonTrue ELSE JsonFalse
      [] kind = "int" -> IntToStr(v)
      [] kind = "nat" -> IntToStr(Decimal(v))
      [] kind = "float" -> floatstr(v)

\* _iterencode_list of a list of such values: the bracket or the separator
\* comes in one piece with the value after it.
ListChunks(kind, l) ==
    IF l = <<>> THEN <<<<91, 93>>>>
    ELSE [i \in 1..Len(l) |->
            (IF i = 1 THEN <<91>> ELSE <<44, 32>>) \o Scalar(kind, l[i])]
         \o <<<<93>>>>

RECURSIVE DictChunks(_, _)
RECURSIVE ItemChunks(_, _, _, _)
RECURSIVE ValueChunks(_, _)
RECURSIVE DictListChunks(_, _, _)

\* _iterencode_dict: the pieces of dict d, whose keys are those of schema.
DictChunks(d, schema) ==
    IF DOMAIN d = {} THEN <<<<123, 125>>>>
    ELSE <<<<123>>>> \o ItemChunks(d, schema, 1, TRUE) \o <<<<125>>>>

\* The items of d from key i of the schema on: the separator but before the
\* first item, the key, the colon, the value.
ItemChunks(d, schema, i, first) ==
    IF i > Len(schema) THEN <<>>
    ELSE IF schema[i][1] \notin DOMAIN d THEN ItemChunks(d, schema, i + 1, first)
    ELSE (IF first THEN <<>> ELSE <<<<44, 32>>>>)
         \o <<encode_basestring(AtomText[schema[i][1]]), <<58, 32>>>>
         \o ValueChunks(schema[i][2], d[schema[i][1]])
         \o ItemChunks(d, schema, i + 1, FALSE)

\* The pieces of a value of the kind.
ValueChunks(kind, v) ==
    CASE kind \in {"text", "atom", "bool", "int", "nat", "float"} ->
            <<Scalar(kind, v)>>
      [] kind = "texts" -> ListChunks("text", v)
      [] kind = "atoms" -> ListChunks("atom", v)
      [] kind = "checks" ->
            IF v = <<>> THEN <<<<91, 93>>>>
            ELSE DictListChunks(v, 1, Schema.check) \o <<<<93>>>>
      [] OTHER -> DictChunks(v, Schema[kind])

\* _iterencode_list of a list of dicts from item i on: the bracket or the
\* separator is a piece of its own.
DictListChunks(l, i, schema) ==
    IF i > Len(l) THEN <<>>
    ELSE <<IF i = 1 THEN <<91>> ELSE <<44, 32>>>>
         \o DictChunks(l[i], schema)
         \o DictListChunks(l, i + 1, schema)

\* JSONEncoder.iterencode(response): the pieces in the order json.dump writes
\* them.
iterencode(r) == DictChunks(r, Schema.response)

\* json.dumps(response, ensure_ascii=False): the whole document.
dumps(r) == Concat(iterencode(r))

\* Whether sys.stdout encodes the text: UTF-8 has no code for a surrogate,
\* and the error handler surrogateescape writes those of U+DC80..U+DCFF as
\* the bytes they stand for.
Encodable(t, errors) ==
    \A i \in 1..Len(t) :
        \/ t[i] \notin 55296..57343
        \/ errors = "surrogateescape" /\ t[i] \in 56448..56575

\* What reaches standard output of the pieces from i on: sys.stdout.write
\* encodes a piece whole, and the first piece it cannot encode ends json.dump
\* with UnicodeEncodeError.
RECURSIVE Written(_, _, _)
Written(chunks, i, errors) ==
    IF i > Len(chunks) \/ ~Encodable(chunks[i], errors) THEN <<>>
    ELSE chunks[i] \o Written(chunks, i + 1, errors)

-----------------------------------------------------------------------------
(* The command line: main()                                                *)

\* "vstavy tekst " and U+DC80, which stands for the byte 0x80 that is no UTF-8
TextByte == SubSeq(Txt.text_surrogate, 1, Len(Txt.text_surrogate) - 1) \o <<56448>>

\* What standard input can be: a terminal; a stream whose text is no JSON
\* (the empty text among it); a JSON number of more digits than int() reads;
\* JSON nested deeper than the interpreter recurses; a JSON value that is no
\* object; a request; or a request one byte of which is no UTF-8, value being
\* what the stream makes of it when its error handler is surrogateescape.
StdinDocs ==
    {[kind |-> "tty"], [kind |-> "malformed"], [kind |-> "empty"],
     [kind |-> "huge_number"], [kind |-> "deep"],
     [kind |-> "array"], [kind |-> "number"], [kind |-> "null"],
     [kind |-> "undecodable", value |-> Request(TextByte, AllTrue, FullContext)]}
    \cup {[kind |-> "object", value |-> p] :
            p \in {Request(t, pol, FullContext) :
                      t \in {Txt.web_internet, Txt.run_alias, Txt.text_short,
                             Txt.unknown, Txt.crit_delete, Txt.empty,
                             Txt.text_surrogate, Txt.text_escape, Txt.audio_up},
                      pol \in {AllTrue, AllFalse}}
                  \cup {With(Request(Txt.empty, AllTrue, FullContext),
                              "llm_summary", Txt.summary),
                        build_payload([transcript |-> Txt.web_weather]),
                        [state |-> "passive"], EmptyDict}}

\* The error handler of sys.stdin and sys.stdout, which the locale and the
\* environment of the interpreter decide.
ErrorHandlers == {"strict", "surrogateescape"}

InitCli ==
    /\ payload = EmptyDict
    /\ response = _base_response
    /\ pc = "main"
    /\ idx = 1
    /\ result = NoResult
    /\ consulted = <<>>
    /\ prechecked = FALSE
    /\ gated = 0
    /\ tts_text = <<>>
    /\ tts_limit = NoInt
    /\ tts_out = Pending
    /\ request = payload
    /\ calls = <<>>
    /\ heap = <<>>
    /\ \E doc \in StdinDocs, errors \in ErrorHandlers :
          cli = [stdin |-> doc, errors |-> errors, at |-> "tty", stdout |-> <<>>,
                 stderr |-> <<>>, invoked |-> FALSE, exit |-> NoInt]
    /\ lookup = NoLookup

body_vars == <<response, idx, result, consulted, prechecked, gated, tts_text,
               tts_limit, tts_out, calls, heap, lookup>>

\* Lines 627-629: no input when standard input is a terminal.
CheckTty ==
    /\ pc = "main"
    /\ cli.at = "tty"
    /\ cli' = IF cli.stdin.kind = "tty"
              THEN [cli EXCEPT !.at = "exited", !.exit = SomeInt(1),
                               !.stderr = Append(@, "no_input")]
              ELSE [cli EXCEPT !.at = "load"]
    /\ UNCHANGED <<payload, request, pc, body_vars>>

\* The exception json.load(sys.stdin) ends with, "" when it returns a value.
\* Text that is no JSON is a JSONDecodeError; the other three are not:
\* ValueError from int(), RecursionError, and UnicodeDecodeError from a
\* stream that decodes strictly.
LoadError(doc, errors) ==
    CASE doc.kind \in {"malformed", "empty"} -> "JSONDecodeError"
      [] doc.kind = "huge_number" -> "ValueError"
      [] doc.kind = "deep" -> "RecursionError"
      [] doc.kind = "undecodable" /\ errors = "strict" -> "UnicodeDecodeError"
      [] OTHER -> ""

\* Lines 630-634: main catches JSONDecodeError, reports it and returns 2; any
\* other exception of json.load leaves main.
Load ==
    /\ pc = "main"
    /\ cli.at = "load"
    /\ LET exc == LoadError(cli.stdin, cli.errors)
       IN cli' = IF exc = "JSONDecodeError"
                 THEN [cli EXCEPT !.at = "exited", !.exit = SomeInt(2),
                                  !.stderr = Append(@, "json_error")]
                 ELSE IF exc # ""
                 THEN [cli EXCEPT !.at = "uncaught"]
                 ELSE [cli EXCEPT !.at = "call"]
    /\ UNCHANGED <<payload, request, pc, body_vars>>

\* Line 636, the call: process_request starts on the value that was loaded;
\* payload.get at line 147 is an AttributeError on a value that is no dict.
Process ==
    /\ pc = "main"
    /\ cli.at = "call"
    /\ cli' = [cli EXCEPT !.at = "called", !.invoked = TRUE]
    /\ IF cli.stdin.kind \in {"object", "undecodable"}
       THEN /\ payload' = cli.stdin.value
            /\ request' = cli.stdin.value
            /\ pc' = "state"
       ELSE /\ pc' = "raised"
            /\ UNCHANGED <<payload, request>>
    /\ UNCHANGED body_vars

\* Lines 642-643: an exception that main does not catch ends the interpreter
\* with a traceback and status 1; what was written to standard output stays.
Crash ==
    /\ \/ pc = "raised" /\ cli.at = "called"
       \/ cli.at = "uncaught"
    /\ cli' = [cli EXCEPT !.at = "exited", !.exit = SomeInt(1),
                          !.stderr = Append(@, "traceback")]
    /\ UNCHANGED <<payload, request, pc, body_vars>>

\* Line 637: json.dump(result_dict, sys.stdout, ensure_ascii=False) writes
\* the pieces of the document one by one, and ends with UnicodeEncodeError at
\* the first that standard output cannot encode.
Dump ==
    /\ pc = "done"
    /\ cli.at = "called"
    /\ LET chunks == iterencode(response)
           all == \A i \in 1..Len(chunks) : Encodable(chunks[i], cli.errors)
       IN cli' = [cli EXCEPT !.at = IF all THEN "dumped" ELSE "uncaught",
                             !.stdout = @ \o Written(chunks, 1, cli.errors)]
    /\ UNCHANGED <<payload, request, pc, body_vars>>

\* Lines 638-639: the newline and return 0.
Finish ==
    /\ cli.at = "dumped"
    /\ cli' = [cli EXCEPT !.at = "exited", !.exit = SomeInt(0),
                          !.stdout = Append(@, 10)]
    /\ UNCHANGED <<payload, request, pc, body_vars>>

NextCli ==
    \/ CheckTty
    \/ Load
    \/ Process
    \/ Next
    \/ Crash
    \/ Dump
    \/ Finish

SpecCli == InitCli /\ [][NextCli]_vars

-----------------------------------------------------------------------------
(* Properties                                                              *)

\* process_request has returned.
Done == pc = "done"

\* The elements of a list.
Elements(list) == {list[i] : i \in 1..Len(list)}

\* Whether the request grants policy flag f: the flag is present and true.
Granted(p, f) ==
    /\ "policies" \in DOMAIN p
    /\ p.policies # NullDict
    /\ f \in DOMAIN p.policies
    /\ p.policies[f] = TRUE

\* Whether the request carries a speech limit, and the limit.
HasLimit(p) ==
    /\ "policies" \in DOMAIN p
    /\ p.policies # NullDict
    /\ "tts_max_chars" \in DOMAIN p.policies
Limit(p) == p.policies.tts_max_chars

\* Whether the request is activated.
IsActivated(p) == "state" \in DOMAIN p /\ p.state = "activated"

\* Whether the transcript of the request is absent, null or white space only.
IsBlank(p) ==
    \/ "transcript" \notin DOMAIN p
    \/ p.transcript = None
    \/ \A i \in 1..Len(p.transcript) : IsSpace(p.transcript[i])

\* Whether the request supplies a non-empty summary.
HasSummary(p) ==
    /\ "llm_summary" \in DOMAIN p
    /\ p.llm_summary # None
    /\ p.llm_summary # <<>>

\* Whether the transcript matches one of the three critical patterns.
IsCritical(p) == _handle_critical(Normalized(p)) # NoCritical

\* The order of the handlers that the specification fixes.
FixedOrder ==
    <<"run_app", "focus_window", "hotkey", "audio_control", "system_toggle",
      "open_folder", "file_search", "file_list", "mkdir_here", "open_recent",
      "text_input", "web_search", "speak_results", "run_macro", "llm_summarize",
      "llm_query">>

\* What the handler at place i of the fixed order makes of the request.
Outcome(p, i) == CallHandler(FixedOrder[i], Normalized(p), p, Kwargs(p))

\* The places of the handlers that recognise the transcript.
Matching(p) == {i \in 1..Len(FixedOrder) : Outcome(p, i) # NoResult}

\* The earliest of them.
Earliest(p) == CHOOSE i \in Matching(p) : \A j \in Matching(p) : i <= j

\* Whether the request gets as far as the intent handlers.
ReachesHandlers(p) ==
    /\ IsActivated(p)
    /\ ~IsBlank(p)
    /\ ~IsCritical(p)

\* The handlers that look a spoken name up in the context.
EntityHandlers == {"run_app", "focus_window", "open_folder", "run_macro"}

\* C1: when the matched handler produced an action that the policy-gate table
\* maps to a flag and the request does not grant that flag, the response has
\* action "none", params {} and "policy_violation" among log.errors.
C1_DeniedActionIsNone ==
    (/\ Done
     /\ IsActivated(payload)
     /\ result # NoResult
     /\ result.response.action \in DOMAIN mapping
     /\ ~Granted(payload, mapping[result.response.action]))
    => /\ response.action = "none"
       /\ response.params = EmptyDict
       /\ "policy_violation" \in Elements(response.log.errors)

\* C1 witness: a handler produced a gated action with parameters, the flag is
\* absent from the policies, and the response was returned.
C1_Witness ==
    /\ Done
    /\ result # NoResult
    /\ result.response.action = "text_input"
    /\ result.response.params # EmptyDict
    /\ "policies" \in DOMAIN payload
    /\ payload.policies # NullDict
    /\ "dictation" \notin DOMAIN payload.policies
    /\ "allow_run_apps" \in DOMAIN payload.policies
    /\ response.action = "none"

\* C2: a transcript that matches a critical pattern gets confirmation.required
\* true and action "none" under every policy configuration, and no policy gate
\* is evaluated.
C2_CriticalAlwaysConfirms ==
    (Done /\ IsActivated(payload) /\ IsCritical(payload))
    => /\ response.confirmation.required = TRUE
       /\ response.action = "none"
       /\ response.log.policy_checks = <<>>
       /\ "policy_violation" \notin Elements(response.log.errors)
       /\ gated = 0

\* C2 witness: the delete-file pattern under policies that refuse every flag.
C2_Witness ==
    /\ Done
    /\ IsActivated(payload)
    /\ "policies" \in DOMAIN payload
    /\ payload.policies = AllFalse
    /\ response.confirmation.required
    /\ "file" \in DOMAIN response.params

\* C3 as claimed: a request that is not activated gets the idle response, with
\* tts.say the activation prompt, whatever its transcript, summary, policies
\* and context.
C3_Original ==
    (Done /\ ~IsActivated(payload))
    => /\ response.action = "none"
       /\ response.log.intent_detected = "idle"
       /\ response.confirmation.required = FALSE
       /\ response.log.errors = <<>>
       /\ response.log.policy_checks = <<>>
       /\ response.tts.say = S.MSG_IDLE

\* C3 amended: a request that is not activated gets the idle response, whose
\* tts.say is the activation prompt as the TTS formatter cuts it to
\* policies.tts_max_chars: the prompt itself when the request carries no limit
\* or a limit the prompt fits in.
C3_IdleWhenNotActivated ==
    (Done /\ ~IsActivated(payload))
    => /\ response.action = "none"
       /\ response.params = EmptyDict
       /\ response.log.intent_detected = "idle"
       /\ response.confirmation.required = FALSE
       /\ response.log.errors = <<>>
       /\ response.log.policy_checks = <<>>
       /\ response.need_more_info = <<>>
       /\ IF HasLimit(payload) /\ Limit(payload) < Len(S.MSG_IDLE)
          THEN response.tts.say =
                   rstrip(SliceTo(S.MSG_IDLE, Limit(payload) - 1)) \o S.ELLIPSIS
          ELSE response.tts.say = S.MSG_IDLE
       /\ consulted = <<>>
       /\ ~prechecked
       /\ gated = 0

\* C3 witness: a passive request whose transcript is the shutdown command and
\* whose limit is shorter than the prompt.
C3_Witness ==
    /\ Done
    /\ "state" \notin DOMAIN payload
    /\ IsCritical(payload)
    /\ HasLimit(payload)
    /\ Limit(payload) = 12
    /\ response.log.intent_detected = "idle"

\* C4: the response comes from the earliest handler, in the fixed order, that
\* recognises the transcript: its intent, its slots, its action and params (or
\* "none" and {} when the policy gate refuses that action), and no later
\* handler is called.
C4_EarliestHandlerWins ==
    (Done /\ ReachesHandlers(payload) /\ Matching(payload) # {})
    => LET first == Earliest(payload)
           res == Outcome(payload, first)
           refused == /\ res.response.action \in DOMAIN mapping
                      /\ ~Granted(payload, mapping[res.response.action])
       IN /\ consulted = SubSeq(FixedOrder, 1, first)
          /\ response.log.intent_detected = FixedOrder[first]
          /\ response.log.slots = res.slots
          /\ response.action = IF refused THEN "none" ELSE res.response.action
          /\ response.params = IF refused THEN EmptyDict ELSE res.response.params

\* C4 witness: the earliest handler only reports that its entity is missing
\* while a later handler would have produced an action.
C4_Witness ==
    /\ Done
    /\ ReachesHandlers(payload)
    /\ Cardinality(Matching(payload)) >= 2
    /\ Outcome(payload, Earliest(payload)).response.action = "none"
    /\ \E j \in Matching(payload) : Outcome(payload, j).response.action = "hotkey"
    /\ response.action = "none"

\* C5: an activated request with a summary and a blank transcript gets action
\* "speak_results" sourced from the summary, spoken as the TTS formatter cuts
\* it, and neither the precheck, the handlers nor the policy gate run; with a
\* transcript that is not blank the summary changes nothing in the response.
C5_SummaryShortCircuit ==
    /\ (Done /\ IsActivated(payload) /\ HasSummary(payload) /\ IsBlank(payload))
       => /\ response.action = "speak_results"
          /\ response.params = [source |-> "llm_summary"]
          /\ response.tts.say = _apply_tts_limit(payload.llm_summary, TtsMax(payload))
          /\ ~HasLimit(payload) => response.tts.say = payload.llm_summary
          /\ ~prechecked
          /\ consulted = <<>>
          /\ gated = 0
    /\ (Done /\ IsActivated(payload) /\ HasSummary(payload) /\ ~IsBlank(payload))
       => response = process_request(Without(payload, "llm_summary"))

\* C5 witness: a summary with a transcript of spaces, cut to the limit.
C5_Witness ==
    /\ Done
    /\ IsActivated(payload)
    /\ HasSummary(payload)
    /\ "transcript" \in DOMAIN payload
    /\ payload.transcript = Txt.blank
    /\ HasLimit(payload)
    /\ response.action = "speak_results"
    /\ Len(response.tts.say) < Len(payload.llm_summary)

\* C6 as claimed: with a limit L the formatter returns at most L characters.
C6_Original ==
    (pc = "tts_done" /\ tts_limit # NoInt) => Len(tts_out) <= tts_limit[1]

\* The first n characters of s; none when n is not positive.
FirstChars(s, n) == SubSeq(s, 1, IF n < Len(s) THEN n ELSE Len(s))

\* C7 as claimed: the formatter returns the text unchanged without a limit or
\* within it, and otherwise the first limit - 1 characters, stripped of
\* trailing white space, followed by one ellipsis.
C7_Original ==
    pc = "tts_done"
    => IF tts_limit = NoInt \/ Len(tts_text) <= tts_limit[1]
       THEN tts_out = tts_text
       ELSE tts_out = rstrip(FirstChars(tts_text, tts_limit[1] - 1)) \o S.ELLIPSIS

\* C8 as claimed: whenever the transcript matches the pattern of an entity
\* handler and the spoken name is not in the context, the response has action
\* "none", confidence 0.4, a need_more_info and no errors.
C8_Original ==
    (/\ Done
     /\ IsActivated(payload)
     /\ \E i \in Matching(payload) :
            /\ FixedOrder[i] \in EntityHandlers
            /\ Outcome(payload, i).response.action = "none")
    => /\ response.action = "none"
       /\ response.log.confidence = 40
       /\ response.need_more_info # <<>>
       /\ response.log.errors = <<>>

\* C8 amended: when the critical precheck does not fire and the earliest
\* handler that recognises the transcript is an entity handler whose spoken
\* name is not in the context, the response has action "none", confidence
\* 0.4, a need_more_info and no errors.
C8_EntityNotFound ==
    (/\ Done
     /\ ReachesHandlers(payload)
     /\ Matching(payload) # {}
     /\ FixedOrder[Earliest(payload)] \in EntityHandlers
     /\ Outcome(payload, Earliest(payload)).response.action = "none")
    => /\ response.action = "none"
       /\ response.log.confidence = 40
       /\ response.need_more_info # <<>>
       /\ response.log.errors = <<>>

\* C8 witness: a window that the context lacks, under policies that refuse
\* every flag.
C8_Witness ==
    /\ Done
    /\ ReachesHandlers(payload)
    /\ "policies" \in DOMAIN payload
    /\ payload.policies = AllFalse
    /\ response.log.intent_detected = "focus_window"
    /\ response.need_more_info = S.NMI_WINDOW
    /\ response.log.confidence = 40

\* C9 as claimed: when the transcript is not blank, the precheck does not fire
\* and no handler matches, the response is the fallback with the not-understood
\* message as tts.say.
C9_Original ==
    (Done /\ ReachesHandlers(payload) /\ Matching(payload) = {})
    => /\ response.action = "none"
       /\ response.log.confidence = 20
       /\ response.log.intent_detected = "unknown"
       /\ response.log.errors = <<"intent_not_found">>
       /\ response.tts.say = S.MSG_UNKNOWN
       /\ response.confirmation.required = FALSE
       /\ response.log.policy_checks = <<>>

\* C9 amended: the same, with tts.say the not-understood message as the TTS
\* formatter cuts it to policies.tts_max_chars: the message itself when the
\* request carries no limit or a limit the message fits in.
C9_FallbackWhenNoIntent ==
    (Done /\ ReachesHandlers(payload) /\ Matching(payload) = {})
    => /\ response.action = "none"
       /\ response.log.confidence = 20
       /\ response.log.intent_detected = "unknown"
       /\ response.log.errors = <<"intent_not_found">>
       /\ IF HasLimit(payload) /\ Limit(payload) < Len(S.MSG_UNKNOWN)
          THEN response.tts.say =
                   rstrip(SliceTo(S.MSG_UNKNOWN, Limit(payload) - 1)) \o S.ELLIPSIS
          ELSE response.tts.say = S.MSG_UNKNOWN
       /\ response.confirmation.required = FALSE
       /\ response.log.policy_checks = <<>>

\* C9 witness: a transcript that no handler recognises went through all
\* sixteen handlers.
C9_Witness ==
    /\ Done
    /\ ReachesHandlers(payload)
    /\ Len(consulted) = Len(FixedOrder)
    /\ ~HasLimit(payload)
    /\ response.log.intent_detected = "unknown"
    /\ response.tts.say = S.MSG_UNKNOWN

\* C10: an activated request with a blank transcript and no summary gets action
\* "none", the need_more_info that asks for a voice command, confidence 0.1 and
\* no errors; no handler is called and no policy gate is evaluated.
C10_MissingTranscript ==
    (Done /\ IsActivated(payload) /\ IsBlank(payload) /\ ~HasSummary(payload))
    => /\ response.action = "none"
       /\ response.need_more_info = S.NMI_MISSING_TRANSCRIPT
       /\ response.need_more_info # <<>>
       /\ response.log.confidence = 10
       /\ response.log.errors = <<>>
       /\ consulted = <<>>
       /\ gated = 0

\* C10 witness: a transcript of spaces and a summary that is the empty string.
C10_Witness ==
    /\ Done
    /\ IsActivated(payload)
    /\ "transcript" \in DOMAIN payload
    /\ payload.transcript = Txt.blank
    /\ "llm_summary" \in DOMAIN payload
    /\ payload.llm_summary = <<>>
    /\ response.log.intent_detected = "missing_transcript"

\* Whether two names are equal but for the case of their letters.
SameName(a, b) == lower(a) = lower(b)

\* The least of a non-empty set of places.
Least(places) == CHOOSE i \in places : \A j \in places : i <= j

\* Whether the transcript is a launch command, and the name it speaks.
IsLaunch(p) == Search(RunAppRe, Normalized(p)).ok
Spoken(p) == strip(Search(RunAppRe, Normalized(p)).groups[2])

\* The places of the aliases of the spoken name that have a target.
AliasPlaces(p) ==
    {i \in 1..Len(ListOf(p, "aliases")) :
        LET a == ListOf(p, "aliases")[i]
        IN /\ {"name", "maps_to"} \subseteq DOMAIN a
           /\ a.name # None /\ a.name # <<>>
           /\ a.maps_to # None /\ a.maps_to # <<>>
           /\ SameName(a.name, Spoken(p))}

\* The name that is looked up among the apps: the target of the first alias
\* of the spoken name, or the spoken name itself.
LookedUp(p) ==
    IF AliasPlaces(p) = {} THEN Spoken(p)
    ELSE ListOf(p, "aliases")[Least(AliasPlaces(p))].maps_to

\* The places of the apps that carry the looked-up name.
AppPlaces(p) ==
    {j \in 1..Len(ListOf(p, "apps")) :
        \E key \in DOMAIN ListOf(p, "apps")[j] \cap {"name", "title", "label"} :
            LET v == ListOf(p, "apps")[j][key]
            IN v # None /\ v # <<>> /\ SameName(v, LookedUp(p))}

\* C11: in a launch command the target of the first alias of the spoken name
\* replaces it, once, and the spoken name is looked up as it is when it has no
\* alias; when an app carries the looked-up name and allow_run_apps is granted
\* the response is action "run_app" with params.app the name of that app, and
\* when no app carries it the response asks for the app.
C11_AliasThenAppLookup ==
    (Done /\ ReachesHandlers(payload) /\ IsLaunch(payload))
    => /\ response.log.intent_detected = "run_app"
       /\ (AppPlaces(payload) # {} /\ Granted(payload, "allow_run_apps"))
          => LET app == ListOf(payload, "apps")[Least(AppPlaces(payload))]
             IN /\ response.action = "run_app"
                /\ "name" \in DOMAIN app => response.params.app = app.name
                /\ response.log.resolution.spoken = Spoken(payload)
       /\ AppPlaces(payload) = {}
          => /\ response.action = "none"
             /\ response.need_more_info = S.NMI_APP
             /\ response.log.slots = [app |-> Spoken(payload)]

\* C11 witness: the spoken name has two aliases with a target, the first one
\* names an app, and that app is launched.
C11_Witness ==
    /\ Done
    /\ IsLaunch(payload)
    /\ Cardinality(AliasPlaces(payload)) = 2
    /\ LookedUp(payload) = Txt.Notepad
    /\ response.action = "run_app"
    /\ response.params.app = Txt.Notepad

\* Whether the transcript matches the web-search pattern, and the text that
\* follows its trigger, trimmed.
IsWebSearch(p) ==
    \/ Search(WebSearchRe, Normalized(p)).ok
    \/ StartsWith(Normalized(p), S.P_poshuk_)
SearchedFor(p) ==
    IF Search(WebSearchRe, Normalized(p)).ok
    THEN strip(Search(WebSearchRe, Normalized(p)).groups[3])
    ELSE strip(SubSeq(Normalized(p), Len(S.P_poshuk_) + 1, Len(Normalized(p))))

\* The engine the request asks for.
EngineOf(p) ==
    IF "default_search_engine" \in DOMAIN p THEN p.default_search_engine ELSE "google"

\* Whether the handler named h is the earliest that recognises the transcript.
HandledBy(p, h) ==
    /\ ReachesHandlers(p)
    /\ Matching(p) # {}
    /\ FixedOrder[Earliest(p)] = h

\* C12 as claimed: every activated request with allow_network_search granted
\* whose transcript matches the web-search pattern gets action "web_search"
\* with the engine of the request, or "google", and the query.
C12_Original ==
    (/\ Done
     /\ IsActivated(payload)
     /\ Granted(payload, "allow_network_search")
     /\ IsWebSearch(payload))
    => /\ response.action = "web_search"
       /\ response.params.engine = EngineOf(payload)
       /\ response.params.query = SearchedFor(payload)

\* C12 amended: the same when the critical precheck does not fire and no
\* handler before web_search in the fixed order recognises the transcript.
C12_WebSearch ==
    (/\ Done
     /\ HandledBy(payload, "web_search")
     /\ Granted(payload, "allow_network_search"))
    => /\ IsWebSearch(payload)
       /\ response.action = "web_search"
       /\ response.params = [engine |-> EngineOf(payload), query |-> SearchedFor(payload)]
       /\ response.log.slots = [query |-> SearchedFor(payload)]

\* C12 witness: a search in capital letters from a request that names
\* another engine.
C12_Witness ==
    /\ Done
    /\ HandledBy(payload, "web_search")
    /\ payload.transcript = Txt.web_internet
    /\ "default_search_engine" \in DOMAIN payload
    /\ payload.default_search_engine = "bing"
    /\ response.action = "web_search"
    /\ response.params.engine = "bing"
    /\ response.params.query # <<>>

\* Whether a handler recognises the transcript of the request.
IsMatched(p) == ReachesHandlers(p) /\ Matching(p) # {}

\* The action the earliest such handler produces.
ProducedAction(p) == Outcome(p, Earliest(p)).response.action

\* C13: when a handler matched, log.policy_checks has exactly one entry if the
\* action the handler produced has a policy-gate mapping, naming the mapped
\* policy with status "granted" if the request grants it and "denied" if the
\* flag is false or absent, and is empty if the action has no mapping; on every
\* other path it is empty.
C13_PolicyChecksReflectGate ==
    Done =>
        IF IsMatched(payload) /\ ProducedAction(payload) \in DOMAIN mapping
        THEN response.log.policy_checks =
                <<[policy |-> mapping[ProducedAction(payload)],
                   status |-> IF Granted(payload, mapping[ProducedAction(payload)])
                              THEN "granted" ELSE "denied"]>>
        ELSE response.log.policy_checks = <<>>

\* C13 witness: the handler produced a gated action whose flag is absent from
\* policies that grant the others, and the entry says "denied".
C13_Witness ==
    /\ Done
    /\ IsMatched(payload)
    /\ ProducedAction(payload) = "audio_control"
    /\ "policies" \in DOMAIN payload
    /\ payload.policies = Without(AllTrue, "allow_audio")
    /\ response.log.policy_checks = <<[policy |-> "allow_audio", status |-> "denied"]>>

\* The folders of the request whose name the transcript asks to open with the
\* trigger of open_folder.
AskedFolders(p) ==
    {j \in 1..Len(ListOf(p, "folders")) :
        /\ "name" \in DOMAIN ListOf(p, "folders")[j]
        /\ Normalized(p) =
              S.P_vidkryi_papku \o Txt.space \o lower(ListOf(p, "folders")[j].name)}

\* C14 as claimed: with allow_file_ops granted and a folder named N among
\* the folders, the transcript "vidkryi papku N" gets action "open_folder"
\* with params.path the path of that folder.
C14_Original ==
    (/\ Done
     /\ IsActivated(payload)
     /\ Granted(payload, "allow_file_ops")
     /\ AskedFolders(payload) # {})
    => /\ response.action = "open_folder"
       /\ response.params.path =
              ListOf(payload, "folders")[Least(AskedFolders(payload))].path

\* Whether r has every field of a response document.
HasAllFields(r) ==
    /\ DOMAIN r = {"action", "params", "confirmation", "tts", "log", "need_more_info"}
    /\ DOMAIN r.confirmation = {"required", "phrase"}
    /\ DOMAIN r.tts = {"say", "display"}
    /\ DOMAIN r.log = {"intent_detected", "confidence", "slots", "policy_checks",
                       "resolution", "errors"}

\* The default of each input field, and the request with every absent or null
\* field set to its default.
DefaultOf(f) ==
    CASE f = "state" -> "passive"
      [] f = "locale" -> "uk-UA"
      [] f = "transcript" -> <<>>
      [] f = "llm_summary" -> None
      [] f = "policies" -> EmptyDict
      [] OTHER -> <<>>
Defaulted(p) ==
    [f \in DOMAIN p \cup InputFields |->
        IF f \in InputFields /\ (f \notin DOMAIN p \/ p[f] = NullOf(f))
        THEN DefaultOf(f) ELSE p[f]]

\* The input fields that the request lacks or carries as null.
Missing(p) == {f \in InputFields : f \notin DOMAIN p \/ p[f] = NullOf(f)}

\* C15: process_request does not raise when input fields are absent or null;
\* the response it returns has every field and is the one the request gets
\* with each such field at its default.  The code breaks it: int() at lines
\* 371 and 443 raises ValueError on a number of more than 4300 digits.
C15_Original ==
    /\ pc # "raised"
    /\ Done => /\ HasAllFields(response)
               /\ response = process_request(Defaulted(payload))

\* C15 witness: a volume command with a number of 4301 digits, in a request
\* that supplies nothing but the state and the transcript, raised in the
\* audio_control handler; no response came back.
C15_Raised ==
    /\ pc = "raised"
    /\ DOMAIN payload = {"state", "transcript"}
    /\ Missing(payload) = InputFields \ {"state", "transcript"}
    /\ payload.transcript = VolumeBy(IntMaxStrDigits + 1)
    /\ consulted[Len(consulted)] = "audio_control"
    /\ response.log.intent_detected = ""

\* C16: every response that process_request returns has all the fields of a
\* response document, an action of the supported set and a confidence between
\* 0 and 1 (0 and 100 hundredths).
C16_WellFormed ==
    Done => /\ HasAllFields(response)
            /\ response.action \in SUPPORTED_ACTIONS
            /\ response.log.confidence \in 0..100
            /\ response.confirmation.required \in BOOLEAN

\* C16 witness: a handler's result was merged into the response and the
\* policy gate then refused its action.
C16_Witness ==
    /\ Done
    /\ IsMatched(payload)
    /\ ProducedAction(payload) = "hotkey"
    /\ "policy_violation" \in Elements(response.log.errors)
    /\ response.log.confidence = 90

\* C17: process_request leaves the request as the caller handed it over, at
\* every step and on every path: the policies, the context lists and every
\* entity in them are what they were before the call.
C17_PayloadUnchanged ==
    /\ payload = request
    /\ \A f \in {"policies", "apps", "windows", "folders", "macros", "aliases",
                  "result_set"} :
           /\ f \in DOMAIN payload <=> f \in DOMAIN request
           /\ f \in DOMAIN payload => payload[f] = request[f]

\* C17 witness: a policy denial, which clears params and appends to errors,
\* on a request that found its entity in the context.
C17_Witness ==
    /\ Done
    /\ IsMatched(payload)
    /\ ProducedAction(payload) = "run_app"
    /\ response.action = "none"
    /\ response.params = EmptyDict
    /\ response.log.errors = <<"policy_violation">>
    /\ "policies" \in DOMAIN request
    /\ request.apps = FullContext.apps

\* The response objects that caller c holds: the one of its call, if it is in
\* one, and those of the calls that returned.
Held(c) ==
    (IF calls[c].at = "out" THEN {} ELSE {calls[c].obj})
    \cup {calls[c].returned[i].obj : i \in 1..Len(calls[c].returned)}

\* C18: in every sequence and interleaving of calls each response is the one
\* its request gets in isolation, when the call has written it and for as long
\* as the caller keeps it, and no call writes an object another call holds.
C18_CallsAreIndependent ==
    \A c \in Callers :
        /\ calls[c].at = "filled"
           => heap[calls[c].obj] = process_request(calls[c].payload)
        /\ \A i \in 1..Len(calls[c].returned) :
              heap[calls[c].returned[i].obj] =
                  process_request(calls[c].returned[i].payload)
        /\ \A d \in Callers \ {c} : Held(c) \cap Held(d) = {}
        /\ Cardinality(Held(c)) = CallsOf(c)

\* C18 witness: while one caller is at the first line of a call that will
\* append to errors, the other has a returned response with an
\* error of its own and is in its next call.
C18_Witness ==
    /\ calls["a"].at = "in"
    /\ calls["a"].payload = Request(Txt.unknown, AllTrue, EmptyDict)
    /\ Len(calls["b"].returned) = 1
    /\ heap[calls["b"].returned[1].obj].log.errors = <<"policy_violation">>
    /\ calls["b"].at = "filled"
    /\ heap[calls["b"].obj].log.errors = <<"intent_not_found">>

\* C19 as claimed: the command line ends in one of three ways: status 0 with
\* one response document, the one process_request makes of the input, and a
\* newline on standard output; status 1 when there is no input; status 2 when
\* the input is no structured document; in the last two process_request is not
\* called and standard output stays empty.
C19_Original ==
    (cli # NoCli /\ cli.at = "exited")
    => \/ /\ cli.exit = SomeInt(0)
          /\ cli.stdin.kind = "object"
          /\ cli.stdout = dumps(process_request(cli.stdin.value)) \o <<10>>
       \/ /\ cli.exit = SomeInt(1)
          /\ cli.stdin.kind = "tty"
          /\ ~cli.invoked
          /\ cli.stdout = <<>>
       \/ /\ cli.exit = SomeInt(2)
          /\ cli.stdin.kind \notin {"tty", "object"}
          /\ ~cli.invoked
          /\ cli.stdout = <<>>

\* Whether the transcript asks to read the results, or to summarise them.
AsksToSpeak(p) ==
    /\ ~IsBlank(p)
    /\ \/ Contains(Normalized(p), S.P_ozvuch_rezultaty)
       \/ Contains(Normalized(p), S.P_prochytai_rezultaty)
AsksToSummarize(p) ==
    /\ ~IsBlank(p)
    /\ \/ Contains(Normalized(p), S.P_uzahalny)
       \/ Contains(Normalized(p), S.P_pidsumui)

\* Whether the request has no results: result_set absent, null or empty.
NoResults(p) ==
    \/ "result_set" \notin DOMAIN p
    \/ p.result_set = NullList
    \/ p.result_set = <<>>

\* The response that asks for results: no action, no error, no policy check.
AsksForResults(r) ==
    /\ r.action = "none"
    /\ r.need_more_info # <<>>
    /\ r.log.confidence = 40
    /\ r.log.errors = <<>>
    /\ r.log.policy_checks = <<>>

\* C20 as claimed: every activated request whose transcript matches the
\* speak-results or the summarize pattern gets, without results, action "none"
\* with a non-empty need_more_info, confidence 0.4, no error and no policy
\* check, and with results the action speak_results or llm_summarize.
C20_Original ==
    (/\ Done
     /\ IsActivated(payload)
     /\ AsksToSpeak(payload) \/ AsksToSummarize(payload))
    => IF NoResults(payload)
       THEN AsksForResults(response)
       ELSE \/ AsksToSpeak(payload) /\ response.action = "speak_results"
            \/ AsksToSummarize(payload) /\ response.action = "llm_summarize"

\* C20 amended: when the critical precheck does not fire and no earlier handler
\* recognises the transcript, so that speak_results or llm_summarize handles
\* it, then without results the response has action "none", the handler's
\* need_more_info, confidence 0.4, no error and no policy check, whatever the
\* policies; with results speak_results answers action "speak_results", and
\* llm_summarize answers action "llm_summarize" if allow_llm_summarize is
\* granted and action "none" with policy_violation if it is not.
C20_MissingResults ==
    /\ (Done /\ HandledBy(payload, "speak_results"))
       => /\ AsksToSpeak(payload)
          /\ response.log.intent_detected = "speak_results"
          /\ IF NoResults(payload)
             THEN /\ AsksForResults(response)
                  /\ response.need_more_info = S.NMI_NO_RESULTS_SPEAK
             ELSE /\ response.action = "speak_results"
                  /\ response.log.errors = <<>>
                  /\ response.log.policy_checks = <<>>
    /\ (Done /\ HandledBy(payload, "llm_summarize"))
       => /\ AsksToSummarize(payload)
          /\ response.log.intent_detected = "llm_summarize"
          /\ IF NoResults(payload)
             THEN /\ AsksForResults(response)
                  /\ response.need_more_info = S.NMI_NO_RESULTS_SUMMARIZE
             ELSE IF Granted(payload, "allow_llm_summarize")
             THEN /\ response.action = "llm_summarize"
                  /\ response.log.errors = <<>>
                  /\ response.log.policy_checks =
                        <<[policy |-> "allow_llm_summarize", status |-> "granted"]>>
             ELSE /\ response.action = "none"
                  /\ response.log.errors = <<"policy_violation">>
                  /\ response.log.policy_checks =
                        <<[policy |-> "allow_llm_summarize", status |-> "denied"]>>

\* C20 witness: a request to summarise that has no result_set field and
\* refuses every policy is asked for results, without error or policy check.
C20_Witness ==
    /\ Done
    /\ HandledBy(payload, "llm_summarize")
    /\ "result_set" \notin DOMAIN payload
    /\ "policies" \in DOMAIN payload
    /\ payload.policies = AllFalse
    /\ response.action = "none"
    /\ response.need_more_info = S.NMI_NO_RESULTS_SUMMARIZE
    /\ response.log.confidence = 40
    /\ response.log.errors = <<>>
    /\ response.log.policy_checks = <<>>

\* The places of the entries that carry the name, but for the case of its
\* letters, as their name, title or label.
NamedPlaces(entries, name) ==
    {i \in 1..Len(entries) :
        \E key \in DOMAIN entries[i] \cap {"name", "title", "label"} :
            /\ entries[i][key] # None
            /\ entries[i][key] # <<>>
            /\ SameName(entries[i][key], name)}

\* C21: the lookup returns the first entry in input order whose name, title or
\* label equals the spoken name in full, but for the case of the letters, and
\* not-found when no entry has such a field; an entry whose names only contain
\* the spoken name, or are contained in it, is never returned.
C21_FirstExactMatch ==
    pc = "lookup_done"
    => IF NamedPlaces(lookup.entries, lookup.name) = {}
       THEN lookup.found = NoEntry
       ELSE lookup.found = lookup.entries[Least(NamedPlaces(lookup.entries, lookup.name))]

\* C21 witness: the first entry has a shorter name and a longer label than the
\* spoken name, the second carries it in another case, and the second is found.
C21_Witness ==
    /\ pc = "lookup_done"
    /\ lookup.name = Txt.NOTEPAD
    /\ lookup.entries = <<[name |-> Txt.Note, label |-> Txt.NotepadPP],
                          [name |-> Txt.notepad, id |-> Txt.id_app2]>>
    /\ lookup.found = [name |-> Txt.notepad, id |-> Txt.id_app2]

\* C22: when the critical precheck fires on an activated request the response
\* is the confirmation response with log.intent_detected "critical", whatever
\* handler would recognise the transcript: no handler is consulted and no
\* policy gate is evaluated.
C22_CriticalShortCircuits ==
    (Done /\ IsActivated(payload) /\ IsCritical(payload))
    => /\ response.log.intent_detected = "critical"
       /\ response.log.confidence = 80
       /\ response.confirmation.required
       /\ response.confirmation.phrase # <<>>
       /\ response.need_more_info = <<>>
       /\ "critical_intent" \in DOMAIN response.log.resolution
       /\ prechecked
       /\ consulted = <<>>
       /\ result = NoResult

\* C22 witness: a launch command that names an app of the context and ends
\* with the restart phrase is answered by the precheck.
C22_Witness ==
    /\ Done
    /\ IsActivated(payload)
    /\ "transcript" \in DOMAIN payload
    /\ payload.transcript = Txt.run_found \o Txt.space \o Txt.crit_restart
    /\ Matching(payload) # {}
    /\ FixedOrder[Earliest(payload)] = "run_app"
    /\ response.log.intent_detected = "critical"
    /\ consulted = <<>>

\* Whether the transcript holds the shutdown phrase, the restart phrase, and
\* the delete-file phrase with a file name after it; the file name.
HasShutdown(p) == Contains(Normalized(p), S.P_vymkny_kompiuter)
HasRestart(p) == Contains(Normalized(p), S.P_perezavantazh)
HasDelete(p) == Search(DeleteFileRe, Normalized(p)).ok
FileNamed(p) == strip(Search(DeleteFileRe, Normalized(p)).groups[1])

\* C23: of the critical patterns in a transcript the precheck reports the
\* earliest in the order shutdown, restart, delete-file:
\* log.resolution.critical_intent is that operation and confirmation.phrase
\* names it, with the file name of the transcript for delete-file.
C23_CriticalOrder ==
    (Done /\ IsActivated(payload))
    => /\ HasShutdown(payload)
          => /\ response.log.resolution = [critical_intent |-> "shutdown"]
             /\ response.confirmation.phrase = S.PHRASE_SHUTDOWN
             /\ response.params = [operation |-> "shutdown"]
       /\ (~HasShutdown(payload) /\ HasRestart(payload))
          => /\ response.log.resolution = [critical_intent |-> "restart"]
             /\ response.confirmation.phrase = S.PHRASE_RESTART
             /\ response.params = [operation |-> "restart"]
       /\ (~HasShutdown(payload) /\ ~HasRestart(payload) /\ HasDelete(payload))
          => /\ response.log.resolution = [critical_intent |-> "delete_file"]
             /\ response.confirmation.phrase =
                   S.PHRASE_DELETE \o FileNamed(payload) \o S.QUESTION
             /\ response.params = [file |-> FileNamed(payload)]
       /\ "critical_intent" \in DOMAIN response.log.resolution
          => response.log.resolution.critical_intent
                \in {"shutdown", "restart", "delete_file"}

\* C23 witness: the delete-file phrase comes first in the transcript and the
\* shutdown phrase after it; shutdown is reported.
C23_Witness ==
    /\ Done
    /\ IsActivated(payload)
    /\ "transcript" \in DOMAIN payload
    /\ payload.transcript = Txt.crit_delete \o Txt.space \o Txt.crit_shutdown
    /\ response.log.resolution = [critical_intent |-> "shutdown"]
    /\ response.confirmation.phrase = S.PHRASE_SHUTDOWN

\* Whether the transcript holds the delete-file phrase with no file name after
\* it, and neither the shutdown nor the restart phrase.
BareDelete(p) ==
    /\ Contains(Normalized(p), S.P_vydaly_fail)
    /\ ~HasDelete(p)
    /\ ~HasShutdown(p)
    /\ ~HasRestart(p)

\* C24: the delete-file phrase with no file name after it does not fire the
\* critical precheck: confirmation is not required and the response is that of
\* the first handler that recognises the transcript, or the intent_not_found
\* fallback when there is none.
C24_BareDeleteIsNotCritical ==
    (Done /\ IsActivated(payload) /\ BareDelete(payload))
    => /\ prechecked
       /\ response.confirmation = [required |-> FALSE, phrase |-> <<>>]
       /\ response.log.intent_detected # "critical"
       /\ IF Matching(payload) = {}
          THEN /\ response.log.intent_detected = "unknown"
               /\ response.log.errors = <<"intent_not_found">>
               /\ response.action = "none"
          ELSE /\ response.log.intent_detected = FixedOrder[Earliest(payload)]
               /\ Len(consulted) = Earliest(payload)

\* C24 witness: a hotkey command followed by the bare delete-file phrase is
\* answered by the hotkey handler.
C24_Witness ==
    /\ Done
    /\ IsActivated(payload)
    /\ BareDelete(payload)
    /\ payload.transcript = Txt.hotkey_close \o Txt.space \o Txt.crit_delete_noname
    /\ response.action = "hotkey"
    /\ response.confirmation.required = FALSE

\* C25 as claimed: an activated request with allow_file_ops granted and the
\* transcript "vidkryi ostannii fail" gets action "open_recent" with
\* log.intent_detected "open_recent".
C25_Original ==
    (/\ Done
     /\ IsActivated(payload)
     /\ Granted(payload, "allow_file_ops")
     /\ Normalized(payload) = S.P_vidkryi_ostannii_fail)
    => /\ response.action = "open_recent"
       /\ response.log.intent_detected = "open_recent"

\* C26: a matched run_macro or speak_results response, whose actions have no
\* entry in the policy-gate table, keeps the handler's action and params under
\* every policy configuration, with empty log.policy_checks and no
\* "policy_violation" error.
C26_UngatedActionsAllowed ==
    (/\ Done
     /\ IsMatched(payload)
     /\ ProducedAction(payload) \in {"run_macro", "speak_results"})
    => /\ response.action = ProducedAction(payload)
       /\ response.params = Outcome(payload, Earliest(payload)).response.params
       /\ response.log.policy_checks = <<>>
       /\ "policy_violation" \notin Elements(response.log.errors)
       /\ response.log.errors = <<>>

\* C26 witness: a macro of the context is run under policies that refuse
\* every flag.
C26_Witness ==
    /\ Done
    /\ IsMatched(payload)
    /\ "policies" \in DOMAIN payload
    /\ payload.policies = AllFalse
    /\ response.action = "run_macro"
    /\ response.params.macro_id = Txt.id_macro1
    /\ response.log.policy_checks = <<>>

\* Whether the matched handler produced an action whose policy flag the
\* request does not grant.
IsDenied(p) ==
    /\ IsMatched(p)
    /\ ProducedAction(p) \in DOMAIN mapping
    /\ ~Granted(p, mapping[ProducedAction(p)])

\* C27: on policy denial tts.say is the policy-forbidden message, cut to the
\* TTS limit as the formatter cuts it, and not what the handler would say;
\* log.resolution is {denied_policy: flag}, without the handler's resolution;
\* confirmation is not required, need_more_info is empty, log.errors holds
\* "policy_violation" once, and log.intent_detected, log.confidence and
\* log.slots are the matched handler's.
C27_DenialResponse ==
    (Done /\ IsDenied(payload))
    => LET h == Earliest(payload)
           out == Outcome(payload, h)
       IN /\ response.action = "none"
          /\ response.tts.say = _apply_tts_limit(S.MSG_POLICY_DENIED, TtsMax(payload))
          /\ ~HasLimit(payload)
             => /\ response.tts.say = S.MSG_POLICY_DENIED
                /\ response.tts.say # out.tts
          /\ response.log.resolution =
                [denied_policy |-> mapping[ProducedAction(payload)]]
          /\ response.confirmation = [required |-> FALSE, phrase |-> <<>>]
          /\ response.need_more_info = <<>>
          /\ response.log.errors = <<"policy_violation">>
          /\ response.log.intent_detected = FixedOrder[h]
          /\ response.log.confidence = out.confidence
          /\ response.log.slots = out.slots

\* C27 witness: an app of the context, found through its alias, is refused:
\* the handler's resolution held the id of the app, the response's does not,
\* and the slots are the handler's.
C27_Witness ==
    /\ Done
    /\ IsDenied(payload)
    /\ ProducedAction(payload) = "run_app"
    /\ "app_id" \in DOMAIN Outcome(payload, Earliest(payload)).resolution
    /\ response.log.resolution = [denied_policy |-> "allow_run_apps"]
    /\ response.log.slots # EmptyDict
    /\ response.log.errors = <<"policy_violation">>
    /\ response.tts.say = S.MSG_POLICY_DENIED

\* The policy flag of the intent of the earliest handler that matched.
IntentFlag(p) == mapping[FixedOrder[Earliest(p)]]

\* The same request with no entity in its context.
WithoutEntities(p) == Update(p, EmptyContext)

\* C28: the policy gate goes by the action the handler produced, not by the
\* intent: when a handler matched and produced action "none", no gate is
\* evaluated, and the response is the need_more_info response with empty
\* policy_checks and no "policy_violation" even if the request does not grant
\* the flag of the intent; so a request that is refused an entity action gets
\* the need_more_info response, without policy check, once the entity is
\* taken out of its context.
C28_GateFollowsAction ==
    /\ (Done /\ IsMatched(payload) /\ ProducedAction(payload) = "none")
       => /\ response.action = "none"
          /\ response.need_more_info # <<>>
          /\ response.log.policy_checks = <<>>
          /\ response.log.errors = <<>>
          /\ response.log.intent_detected = FixedOrder[Earliest(payload)]
    /\ (Done /\ IsDenied(payload) /\ FixedOrder[Earliest(payload)] \in EntityHandlers)
       => /\ response.log.errors = <<"policy_violation">>
          /\ response.log.policy_checks # <<>>
          /\ LET other == process_request(WithoutEntities(payload))
             IN /\ other # response
                /\ other.log.intent_detected = response.log.intent_detected
                /\ other.need_more_info # <<>>
                /\ other.log.policy_checks = <<>>
                /\ other.log.errors = <<>>

\* C28 witness: an app that the context lacks, asked of a request whose
\* policies refuse allow_run_apps: the response asks for the app and holds no
\* policy check.
C28_Witness ==
    /\ Done
    /\ IsMatched(payload)
    /\ ProducedAction(payload) = "none"
    /\ FixedOrder[Earliest(payload)] = "run_app"
    /\ IntentFlag(payload) = "allow_run_apps"
    /\ "policies" \in DOMAIN payload
    /\ payload.policies # NullDict
    /\ "allow_run_apps" \in DOMAIN payload.policies
    /\ ~payload.policies.allow_run_apps
    /\ response.need_more_info = S.NMI_APP
    /\ response.log.policy_checks = <<>>

\* The policy flags the response may depend on: the flag of the action the
\* matched handler produced, if that action is gated; none on the other paths.
RelevantFlags(p) ==
    IF IsMatched(p) /\ ProducedAction(p) \in DOMAIN mapping
    THEN {mapping[ProducedAction(p)]}
    ELSE {}

\* The request with every other boolean policy flag taken out of its policies.
Projected(p) ==
    IF "policies" \notin DOMAIN p \/ p.policies = NullDict
    THEN p
    ELSE With(p, "policies",
              [f \in DOMAIN p.policies \cap (RelevantFlags(p) \cup {"tts_max_chars"})
                  |-> p.policies[f]])

\* C29: the response depends on at most one policy flag, that of the action
\* the matched handler produced: it is the response to the same request with
\* every other boolean flag taken out of its policies, so two requests that
\* differ only in the value or presence of such a flag get the same response;
\* on the idle, summary, critical, empty-transcript and fallback paths no
\* boolean flag is left and the response is the same for all of them.
C29_OneFlagDecides ==
    Done => /\ response = process_request(Projected(payload))
            /\ RelevantFlags(Projected(payload)) = RelevantFlags(payload)
            /\ response.log.intent_detected
                  \in {"idle", "critical", "missing_transcript", "unknown"}
               => RelevantFlags(payload) = {}

\* C29 witness: a hotkey command under policies that grant allow_hotkeys and
\* refuse every other flag is answered as under allow_hotkeys alone.
C29_Witness ==
    /\ Done
    /\ IsMatched(payload)
    /\ ProducedAction(payload) = "hotkey"
    /\ "policies" \in DOMAIN payload
    /\ payload.policies = With(AllFalse, "allow_hotkeys", TRUE)
    /\ Projected(payload).policies = [allow_hotkeys |-> TRUE]
    /\ response.action = "hotkey"
    /\ response = process_request(Projected(payload))

\* C30: in every response confirmation.required is true exactly when
\* log.intent_detected is "critical"; when it is true the action is "none",
\* confirmation.phrase is not empty and log.errors is empty; when it is false
\* confirmation.phrase is empty.
C30_ConfirmationOnlyWhenCritical ==
    Done => /\ response.confirmation.required
               <=> response.log.intent_detected = "critical"
            /\ response.confirmation.required
               => /\ response.action = "none"
                  /\ response.confirmation.phrase # <<>>
                  /\ response.log.errors = <<>>
            /\ ~response.confirmation.required
               => response.confirmation.phrase = <<>>

\* C30 witness: a response that asks to confirm a restart.
C30_Witness ==
    /\ Done
    /\ response.log.intent_detected = "critical"
    /\ response.confirmation = [required |-> TRUE, phrase |-> S.PHRASE_RESTART]
    /\ response.action = "none"
    /\ response.log.errors = <<>>

=============================================================================
